---------------------------- MODULE Spec2Model ----------------------------
(***************************************************************************)
(* The two upload handlers of gbs_sales as one state machine:              *)
(*   "chunked"  : POST of src/app/api/upload/route.ts                      *)
(*   "fallback" : POST of src/unnamed/part_000 (bulk insert, then per-row) *)
(* and the two tables they write, upload_history and sales_data.           *)
(*                                                                         *)
(* A handler execution is a process p; proc[p] holds its local variables   *)
(* under the names the source gives them.  One action is one stretch of    *)
(* the handler between two awaited persistence calls.  Every persistence   *)
(* call ends in one of three ways: "ok" (applied, no error), "error" (the  *)
(* client returns {error}, nothing applied) or "throw" (the awaited call   *)
(* raises, nothing applied).                                               *)
(*                                                                         *)
(* The cell coercions of the two handlers (dates, numbers) are operators;  *)
(* specification SpecCoerce applies them to one cell at a time, held in    *)
(* the variable coercion, which the handler specifications leave alone.    *)
(***************************************************************************)
EXTENDS Integers, Sequences, FiniteSets, TLC

VARIABLES
    proc,            \* proc[p]: the local variables of handler execution p
    upload_history,  \* table upload_history, in insertion order
    sales_data,      \* table sales_data, a set of rows
    nextUuid,        \* the next identifier uuidv4() / crypto.randomUUID() yields
    coercion,        \* one evaluation of a cell coercion: its input and result
    dashboard        \* the state of the dashboard page and its fetchAllData calls

vars == <<proc, upload_history, sales_data, nextUuid, coercion, dashboard>>

---------------------------------------------------------------------------
(* Bounds of the model.  CHUNK_SIZE and ERROR_CAP are the source's 500 and *)
(* 10 scaled down so that a sheet of MaxRows records spans several chunks  *)
(* and can reach the cap.                                                  *)
MaxRows == 3
CHUNK_SIZE == 2
ERROR_CAP == 2

(* File sizes in MB.                                                       *)
MAX_FILE_SIZE_CHUNKED == 50
MAX_FILE_SIZE == 100

Procs == {1, 2}
NoBatch == 0

Outcomes == {"ok", "error", "throw"}

---------------------------------------------------------------------------
(* Request inputs.                                                         *)

validEntities == {"HQ", "USA", "BWA", "Vietnam", "Healthcare", "Korot"}

\* formData.get('entity'): absent (""), valid, the dashboard's 'All', or foreign
EntityInputs == {"", "HQ", "All", "Mars"}

XLSX_MIME == "application/vnd.openxmlformats-officedocument.spreadsheetml.sheet"
XLS_MIME == "application/vnd.ms-excel"

validTypesChunked == {XLSX_MIME, XLS_MIME}
validTypesFallback == {XLSX_MIME, XLS_MIME, "application/excel", "application/x-excel"}

FileTypes == {XLSX_MIME, "application/excel", "text/plain"}

\* A file name is its stem followed by its last extension, as authored.
FileNames == {<<"sales", ".XLSX">>, <<"sales", ".txt">>}

FileSizes == {1, 60, 120}

RowKinds == {"ok", "bad"}   \* "bad": the mapping of the record raises

RowSeqs == UNION {[1..n -> RowKinds] : n \in 0..MaxRows}

\* What the binary holds: an unreadable container, or the first sheet's records
Workbooks == {[readable |-> FALSE, rows |-> <<>>]}
             \cup {[readable |-> TRUE, rows |-> rs] : rs \in RowSeqs}

NoFile == [name |-> <<>>, size |-> 0, type |-> "", content |-> [readable |-> FALSE, rows |-> <<>>]]

Files == [name : FileNames, size : FileSizes, type : FileTypes, content : Workbooks]

NoResponse == [status |-> 0, success |-> FALSE, error |-> "", batchId |-> NoBatch,
               rowsInserted |-> 0, rowsSkipped |-> 0, history |-> <<>>]

\* proc[p].calls logs the persistence calls execution p has issued, in order:
\* the table, the operation, the number of rows sent and how the call ended.
Call(table, op, n, outcome) == [table |-> table, op |-> op, n |-> n, outcome |-> outcome]

\* A variant of InitialBatchId: the identifier is drawn when the handler starts
InitialBatchId_Eager == NoBatch + 1

\* route.ts 12: let batchId = ''
InitialBatchId == NoBatch

Off == [pc |-> "off", handler |-> "none", file |-> NoFile, entity |-> "",
        rawData |-> <<>>, transformedData |-> <<>>, errors |-> <<>>,
        batchId |-> InitialBatchId, i |-> 0, totalInserted |-> 0, rowsInserted |-> 0,
        calls |-> <<>>, response |-> NoResponse, icons |-> <<>>]

Idle == [Off EXCEPT !.pc = "idle"]

---------------------------------------------------------------------------
(* Helpers.                                                                *)

toLowerCase(s) ==
    CASE s = ".XLSX" -> ".xlsx"
      [] s = ".XLS"  -> ".xls"
      [] s \in {"Invoice", "INVOICE"} -> "invoice"
      [] OTHER       -> s

endsWith(name, ext) ==
    /\ Len(name) > 0
    /\ toLowerCase(name[Len(name)]) = ext

hasValidExtension(name) ==
    \E ext \in {".xlsx", ".xls"} : endsWith(name, ext)

Response(status, success, error) ==
    [status |-> status, success |-> success, error |-> error,
     batchId |-> NoBatch, rowsInserted |-> 0, rowsSkipped |-> 0, history |-> <<>>]

Msg(row, msg) == [row |-> row, msg |-> msg]

\* .update(fields).eq('batch_id', b): every record of batch b, none when absent
UpdateStatus(history, b, status, message) ==
    [k \in 1..Len(history) |->
        IF history[k].batch_id = b
        THEN [history[k] EXCEPT !.status = status, !.error_message = message]
        ELSE history[k]]

\* A variant of UpdateStatusOnly: the update carries no batch_id filter
UpdateStatusOnly_NoFilter(history, b, status) ==
    [k \in 1..Len(history) |-> [history[k] EXCEPT !.status = status]]

\* .update({status}).eq('batch_id', b): error_message is left as it is
UpdateStatusOnly(history, b, status) ==
    [k \in 1..Len(history) |->
        IF history[k].batch_id = b
        THEN [history[k] EXCEPT !.status = status]
        ELSE history[k]]

\* A variant of slice: the chunk starts one row late
slice_FromNext(arr, from, n) ==
    SubSeq(arr, from + 2, IF from + n + 1 > Len(arr) THEN Len(arr) ELSE from + n + 1)

\* Array.prototype.slice(from, from + n) on a 1-based sequence, from 0-based
slice(arr, from, n) ==
    SubSeq(arr, from + 1, IF from + n < Len(arr) THEN from + n ELSE Len(arr))

Range(f) == {f[k] : k \in DOMAIN f}

---------------------------------------------------------------------------
(* Initial states: an empty store, or a store holding one earlier batch.   *)

PriorHistory ==
    <<[batch_id |-> 1, entity |-> "USA", file_name |-> <<"sales", ".XLSX">>,
       rows_uploaded |-> 1, status |-> "completed", error_message |-> <<>>]>>

PriorSales == {[entity |-> "USA", row |-> 1, upload_batch_id |-> 1]}

InitStore ==
    \/ /\ upload_history = <<>>
       /\ sales_data = {}
       /\ nextUuid = 1
    \/ /\ upload_history = PriorHistory
       /\ sales_data = PriorSales
       /\ nextUuid = 2

\* part_000 411-425 (DashboardPage's useState calls): no year selected,
\* loading, no dataset; the page is not open
NoDashboard ==
    [open |-> FALSE, years |-> "none", selection |-> 0, loading |-> TRUE,
     displayed |-> <<>>, calls |-> <<>>]

\* No coercion is being evaluated
NoCoercion == [fn |-> "none"]

Init ==
    /\ proc = [p \in Procs |-> IF p = 1 THEN Idle ELSE Off]
    /\ InitStore
    /\ coercion = NoCoercion
    /\ dashboard = NoDashboard

---------------------------------------------------------------------------
(* Both handlers: the request arrives.                                     *)

Receive(p) ==
    /\ proc[p].pc = "idle"
    /\ \E h \in {"chunked", "fallback"}, f \in Files \cup {NoFile}, e \in EntityInputs :
          proc' = [proc EXCEPT ![p] = [@ EXCEPT !.pc = "validate", !.handler = h,
                                                !.file = f, !.entity = e]]
    /\ UNCHANGED <<upload_history, sales_data, nextUuid, coercion, dashboard>>

---------------------------------------------------------------------------
(* The chunked handler, route.ts POST.                                     *)

\* A variant of ChunkedValidationError: the entity is looked at before the file
ChunkedValidationError_EntityFirst(file, entity) ==
    IF entity = "" THEN "No entity selected"
    ELSE IF entity \notin validEntities THEN "Invalid entity"
    ELSE IF file = NoFile THEN "No file provided"
    ELSE IF file.size > MAX_FILE_SIZE_CHUNKED THEN "File too large"
    ELSE IF file.type \notin validTypesChunked THEN "Invalid file type"
    ELSE ""

\* route.ts 28-70: the first failing check decides; "" when all pass
ChunkedValidationError(file, entity) ==
    IF file = NoFile THEN "No file provided"
    ELSE IF entity = "" THEN "No entity selected"
    ELSE IF entity \notin validEntities THEN "Invalid entity"
    ELSE IF file.size > MAX_FILE_SIZE_CHUNKED THEN "File too large"
    ELSE IF file.type \notin validTypesChunked THEN "Invalid file type"
    ELSE ""

ChunkedValidate(p) ==
    LET l == proc[p]
        err == ChunkedValidationError(l.file, l.entity)
    IN  /\ l.pc = "validate"
        /\ l.handler = "chunked"
        /\ proc' = [proc EXCEPT ![p] =
                IF err # ""
                THEN [l EXCEPT !.pc = "done", !.response = Response(400, FALSE, err)]
                ELSE [l EXCEPT !.pc = "parse"]]
        /\ UNCHANGED <<upload_history, sales_data, nextUuid, coercion, dashboard>>

\* route.ts 72-114: file.arrayBuffer() may raise; XLSX.read raises on an
\* unreadable container (caught, 400); an empty first sheet is a 400
ChunkedParse(p) ==
    LET l == proc[p]
    IN  /\ l.pc = "parse"
        /\ l.handler = "chunked"
        /\ \E bufferRead \in BOOLEAN :
              proc' = [proc EXCEPT ![p] =
                IF ~bufferRead
                THEN [l EXCEPT !.pc = "catch"]
                ELSE IF ~l.file.content.readable
                THEN [l EXCEPT !.pc = "done",
                               !.response = Response(400, FALSE, "Failed to parse Excel file")]
                ELSE IF Len(l.file.content.rows) = 0
                THEN [l EXCEPT !.pc = "done", !.rawData = l.file.content.rows,
                               !.response = Response(400, FALSE, "Excel file is empty")]
                ELSE [l EXCEPT !.pc = "transform", !.rawData = l.file.content.rows]]
        /\ UNCHANGED <<upload_history, sales_data, nextUuid, coercion, dashboard>>

\* route.ts 218-312: the canonical row of record k (1-based), stamped with
\* the batchId of the moment
mappedRow(entity, k, batchId) ==
    [entity |-> entity, row |-> k, upload_batch_id |-> batchId]

\* route.ts 121-323: the transform loop from record k on.  rowNum = i + 2 with
\* i 0-based is k + 1 with k 1-based.  The cap ends the loop (break).
RECURSIVE TransformLoop(_, _, _, _, _)
TransformLoop(rawData, entity, k, transformedData, errors) ==
    IF k > Len(rawData)
    THEN [transformedData |-> transformedData, errors |-> errors]
    ELSE IF rawData[k] = "ok"
    THEN TransformLoop(rawData, entity, k + 1,
                       Append(transformedData, mappedRow(entity, k, NoBatch)), errors)
    ELSE LET pushed == Append(errors, Msg(k + 1, "validationError.message"))
         IN  IF Len(pushed) >= ERROR_CAP
             THEN [transformedData |-> transformedData,
                   errors |-> Append(pushed, Msg(0, "... (showing first 10 errors)"))]
             ELSE TransformLoop(rawData, entity, k + 1, transformedData, pushed)

\* route.ts 116-337
ChunkedTransform(p) ==
    LET l == proc[p]
        t == TransformLoop(l.rawData, l.entity, 1, <<>>, <<>>)
    IN  /\ l.pc = "transform"
        /\ l.handler = "chunked"
        /\ proc' = [proc EXCEPT ![p] =
                IF Len(t.errors) > 0 /\ Len(t.transformedData) = 0
                THEN [l EXCEPT !.pc = "done", !.errors = t.errors,
                               !.response = Response(400, FALSE, "Data validation failed")]
                ELSE [l EXCEPT !.pc = "allocate", !.errors = t.errors,
                               !.transformedData = t.transformedData]]
        /\ UNCHANGED <<upload_history, sales_data, nextUuid, coercion, dashboard>>

\* A variant of uuidv4: one identifier drawn when the module is loaded
uuidv4_ModuleScope == NoBatch + 1

\* route.ts 340: uuidv4(), an identifier no earlier call returned
uuidv4 == nextUuid

\* A variant of stampBatchId: the rows keep the batchId they were built with
stampBatchId_Skipped(transformedData, batchId) == transformedData

\* route.ts 343-345: transformedData.forEach(row => row.upload_batch_id = batchId)
stampBatchId(transformedData, batchId) ==
    [k \in 1..Len(transformedData) |->
        [transformedData[k] EXCEPT !.upload_batch_id = batchId]]

\* route.ts 339-345: batchId = uuidv4(), stamped on every row
ChunkedAllocate(p) ==
    LET l == proc[p]
    IN  /\ l.pc = "allocate"
        /\ l.handler = "chunked"
        /\ proc' = [proc EXCEPT ![p] =
                [l EXCEPT !.pc = "insertHistory", !.batchId = uuidv4,
                          !.transformedData = stampBatchId(l.transformedData, uuidv4)]]
        /\ nextUuid' = nextUuid + 1
        /\ UNCHANGED <<upload_history, sales_data, coercion, dashboard>>

\* route.ts 346-368
ChunkedInsertHistory(p) ==
    LET l == proc[p]
        record == [batch_id |-> l.batchId, entity |-> l.entity, file_name |-> l.file.name,
                   rows_uploaded |-> Len(l.transformedData), status |-> "processing",
                   error_message |-> <<>>]
    IN  /\ l.pc = "insertHistory"
        /\ l.handler = "chunked"
        /\ \E o \in Outcomes :
              LET logged == [l EXCEPT !.calls = Append(@, Call("upload_history", "insert", 1, o))]
              IN  /\ upload_history' = IF o = "ok" THEN Append(upload_history, record)
                                       ELSE upload_history
                  /\ proc' = [proc EXCEPT ![p] =
                        CASE o = "ok"    -> [logged EXCEPT !.pc = "insertChunk", !.i = 0,
                                                           !.totalInserted = 0]
                          [] o = "error" -> [logged EXCEPT !.pc = "done",
                                                !.response = Response(500, FALSE, "Database error")]
                          [] o = "throw" -> [logged EXCEPT !.pc = "catch"]]
        /\ UNCHANGED <<sales_data, nextUuid, coercion, dashboard>>

\* What follows a chunk whose insert returned an error (route.ts 381-402)
ChunkedAfterInsertError == "markFailed"

\* route.ts 375-406: one turn of the chunk loop, or its end
ChunkedInsertChunk(p) ==
    LET l == proc[p]
        chunk == slice(l.transformedData, l.i, CHUNK_SIZE)
    IN  /\ l.pc = "insertChunk"
        /\ l.handler = "chunked"
        /\ \/ /\ l.i < Len(l.transformedData)
              /\ \E o \in Outcomes :
                    LET logged == [l EXCEPT !.calls =
                                      Append(@, Call("sales_data", "insert", Len(chunk), o))]
                    IN  /\ sales_data' = IF o = "ok" THEN sales_data \cup Range(chunk)
                                         ELSE sales_data
                        /\ proc' = [proc EXCEPT ![p] =
                              CASE o = "ok"    -> [logged EXCEPT !.i = l.i + CHUNK_SIZE,
                                                      !.totalInserted = l.totalInserted + Len(chunk)]
                                [] o = "error" -> [logged EXCEPT !.pc = ChunkedAfterInsertError]
                                [] o = "throw" -> [logged EXCEPT !.pc = "catch"]]
           \/ /\ l.i >= Len(l.transformedData)
              /\ proc' = [proc EXCEPT ![p] = [l EXCEPT !.pc = "complete"]]
              /\ sales_data' = sales_data
        /\ UNCHANGED <<upload_history, nextUuid, coercion, dashboard>>

\* A variant of ChunkedFailureStatus: the branch leaves the status as it was
ChunkedFailureStatus_Processing == "processing"

\* The status the chunk-failure branch writes (route.ts 388)
ChunkedFailureStatus == "failed"

\* A variant of ChunkedAfterMarkFailed: the branch leaves the loop without returning
ChunkedAfterMarkFailed_Break == "complete"

\* Where the chunk-failure branch goes after its update (route.ts 393: return)
ChunkedAfterMarkFailed == "done"

\* route.ts 384-402: the update's own error is not read
ChunkedMarkFailed(p) ==
    LET l == proc[p]
    IN  /\ l.pc = "markFailed"
        /\ l.handler = "chunked"
        /\ \E o \in Outcomes :
              LET logged == [l EXCEPT !.calls = Append(@, Call("upload_history", "update", 1, o))]
              IN  /\ upload_history' =
                        IF o = "ok"
                        THEN UpdateStatus(upload_history, l.batchId, ChunkedFailureStatus,
                                          <<Msg(0, "insertError.message")>>)
                        ELSE upload_history
                  /\ proc' = [proc EXCEPT ![p] =
                        IF o = "throw"
                        THEN [logged EXCEPT !.pc = "catch"]
                        ELSE [logged EXCEPT !.pc = ChunkedAfterMarkFailed,
                                 !.response = Response(500, FALSE, "Database insert failed")]]
        /\ UNCHANGED <<sales_data, nextUuid, coercion, dashboard>>

\* route.ts 408-424: the update's own error is not read
ChunkedComplete(p) ==
    LET l == proc[p]
    IN  /\ l.pc = "complete"
        /\ l.handler = "chunked"
        /\ \E o \in Outcomes :
              LET logged == [l EXCEPT !.calls = Append(@, Call("upload_history", "update", 1, o))]
              IN  /\ upload_history' =
                        IF o = "ok"
                        THEN UpdateStatusOnly(upload_history, l.batchId, "completed")
                        ELSE upload_history
                  /\ proc' = [proc EXCEPT ![p] =
                        IF o = "throw"
                        THEN [logged EXCEPT !.pc = "catch"]
                        ELSE [logged EXCEPT !.pc = "done",
                                 !.response = [status |-> 200, success |-> TRUE, error |-> "",
                                               batchId |-> l.batchId,
                                               rowsInserted |-> l.totalInserted,
                                               rowsSkipped |-> Len(l.errors),
                                               history |-> <<>>]]]
        /\ UNCHANGED <<sales_data, nextUuid, coercion, dashboard>>

\* A variant of ChunkedCatchUpdates: the catch block only answers
ChunkedCatchUpdates_Never(batchId) == FALSE

\* route.ts 429: if (batchId)
ChunkedCatchUpdates(batchId) == batchId # NoBatch

\* route.ts 426-453: with a batchId the handler tries one update to 'failed';
\* an update that raises is caught and logged
ChunkedCatch(p) ==
    LET l == proc[p]
        answered == [l EXCEPT !.pc = "done",
                              !.response = Response(500, FALSE, "Internal server error")]
    IN  /\ l.pc = "catch"
        /\ l.handler = "chunked"
        /\ \/ /\ ChunkedCatchUpdates(l.batchId)
              /\ \E o \in Outcomes :
                    /\ upload_history' =
                          IF o = "ok"
                          THEN UpdateStatus(upload_history, l.batchId, "failed",
                                            <<Msg(0, "error.message")>>)
                          ELSE upload_history
                    /\ proc' = [proc EXCEPT ![p] =
                          [answered EXCEPT !.calls =
                              Append(@, Call("upload_history", "update", 1, o))]]
           \/ /\ ~ChunkedCatchUpdates(l.batchId)
              /\ proc' = [proc EXCEPT ![p] = answered]
              /\ upload_history' = upload_history
        /\ UNCHANGED <<sales_data, nextUuid, coercion, dashboard>>

---------------------------------------------------------------------------
(* The per-row-fallback handler, part_000 POST.                            *)

\* A variant of FallbackValidationError: the file type check is left out
FallbackValidationError_NoTypeCheck(file, entity) ==
    IF file = NoFile THEN "No file provided"
    ELSE IF entity = "" \/ entity = "All" THEN "Please select a specific entity"
    ELSE IF file.size > MAX_FILE_SIZE THEN "File size exceeds maximum limit"
    ELSE ""

\* part_000 39-85: the first failing check decides; "" when all pass
FallbackValidationError(file, entity) ==
    IF file = NoFile THEN "No file provided"
    ELSE IF entity = "" \/ entity = "All" THEN "Please select a specific entity"
    ELSE IF file.size > MAX_FILE_SIZE THEN "File size exceeds maximum limit"
    ELSE IF ~hasValidExtension(file.name) /\ file.type \notin validTypesFallback
         THEN "Invalid file type"
    ELSE ""

FallbackValidate(p) ==
    LET l == proc[p]
        err == FallbackValidationError(l.file, l.entity)
    IN  /\ l.pc = "validate"
        /\ l.handler = "fallback"
        /\ proc' = [proc EXCEPT ![p] =
                IF err # ""
                THEN [l EXCEPT !.pc = "done", !.response = Response(400, FALSE, err)]
                ELSE [l EXCEPT !.pc = "parse"]]
        /\ UNCHANGED <<upload_history, sales_data, nextUuid, coercion, dashboard>>

\* part_000 87-110.  parseExcelBuffer and validateExcelData live outside
\* src/: on an unreadable container parseExcelBuffer either raises or returns
\* nothing, and validateExcelData accepts or rejects the records.
FallbackParse(p) ==
    LET l == proc[p]
    IN  /\ l.pc = "parse"
        /\ l.handler = "fallback"
        /\ \E raises \in BOOLEAN, valid \in BOOLEAN :
              proc' = [proc EXCEPT ![p] =
                IF raises
                THEN [l EXCEPT !.pc = "catch"]
                ELSE IF ~l.file.content.readable \/ Len(l.file.content.rows) = 0
                THEN [l EXCEPT !.pc = "done",
                               !.response = Response(400, FALSE,
                                    "Excel file is empty or could not be parsed")]
                ELSE IF ~valid
                THEN [l EXCEPT !.pc = "done", !.rawData = l.file.content.rows,
                               !.response = Response(400, FALSE, "Data validation failed")]
                ELSE [l EXCEPT !.pc = "allocate", !.rawData = l.file.content.rows]]
        /\ UNCHANGED <<upload_history, sales_data, nextUuid, coercion, dashboard>>

\* part_000 113: crypto.randomUUID(), an identifier no earlier call returned
randomUUID == nextUuid

\* part_000 112-113: batchId = crypto.randomUUID()
FallbackAllocate(p) ==
    LET l == proc[p]
    IN  /\ l.pc = "allocate"
        /\ l.handler = "fallback"
        /\ proc' = [proc EXCEPT ![p] = [l EXCEPT !.pc = "tableCheck", !.batchId = randomUUID]]
        /\ nextUuid' = nextUuid + 1
        /\ UNCHANGED <<upload_history, sales_data, coercion, dashboard>>

\* part_000 170-313: records whose mapping raises become null and are filtered
RECURSIVE salesDataOf(_, _, _, _)
salesDataOf(rawData, entity, batchId, k) ==
    IF k > Len(rawData) THEN <<>>
    ELSE IF rawData[k] = "ok"
    THEN <<mappedRow(entity, k, batchId)>> \o salesDataOf(rawData, entity, batchId, k + 1)
    ELSE salesDataOf(rawData, entity, batchId, k + 1)

\* part_000 118-133 then 170-320: the table probe (only error code 42P01
\* ends the request), the transform, and the choice of the insert path
FallbackTableCheck(p) ==
    LET l == proc[p]
        salesData == salesDataOf(l.rawData, l.entity, l.batchId, 1)
    IN  /\ l.pc = "tableCheck"
        /\ l.handler = "fallback"
        /\ \E o \in Outcomes, code \in {"42P01", "other"} :
              LET logged == [l EXCEPT !.calls = Append(@, Call("sales_data", "select", 0, o))]
              IN  proc' = [proc EXCEPT ![p] =
                    CASE o = "throw" -> [logged EXCEPT !.pc = "catch"]
                      [] o = "error" /\ code = "42P01" ->
                            [logged EXCEPT !.pc = "done",
                                !.response = Response(500, FALSE, "Database table not found")]
                      [] OTHER ->
                            [logged EXCEPT !.transformedData = salesData,
                                !.rowsInserted = 0, !.errors = <<>>,
                                !.pc = IF Len(salesData) > 0 THEN "bulkInsert"
                                       ELSE "saveHistory"]]
        /\ UNCHANGED <<upload_history, sales_data, nextUuid, coercion, dashboard>>

\* part_000 321-355: one insert of the whole set; a returned error starts the
\* per-row loop, a raised one is pushed to errors
FallbackBulkInsert(p) ==
    LET l == proc[p]
        salesData == l.transformedData
    IN  /\ l.pc = "bulkInsert"
        /\ l.handler = "fallback"
        /\ \E o \in Outcomes :
              LET logged == [l EXCEPT !.calls =
                                Append(@, Call("sales_data", "insert", Len(salesData), o))]
              IN  /\ sales_data' = IF o = "ok" THEN sales_data \cup Range(salesData)
                                   ELSE sales_data
                  /\ proc' = [proc EXCEPT ![p] =
                        CASE o = "ok"    -> [logged EXCEPT !.pc = "saveHistory",
                                                !.rowsInserted = Len(salesData)]
                          [] o = "error" -> [logged EXCEPT !.pc = "rowInsert", !.i = 0]
                          [] o = "throw" -> [logged EXCEPT !.pc = "saveHistory",
                                                !.errors = Append(@, Msg(0, "Failed to insert data"))]]
        /\ UNCHANGED <<upload_history, nextUuid, coercion, dashboard>>

\* A variant of FallbackAfterRowError: the first failing row ends the loop
FallbackAfterRowError_Break == "saveHistory"

\* Where a failed row insert goes (part_000 339-347): the error is pushed and
\* the loop goes on with the next row
FallbackAfterRowError == "rowInsert"

\* part_000 332-348: one turn of the per-row loop, or its end
FallbackRowInsert(p) ==
    LET l == proc[p]
        salesData == l.transformedData
    IN  /\ l.pc = "rowInsert"
        /\ l.handler = "fallback"
        /\ \/ /\ l.i < Len(salesData)
              /\ \E o \in Outcomes :
                    LET logged == [l EXCEPT !.calls = Append(@, Call("sales_data", "insert", 1, o)),
                                            !.i = l.i + 1]
                    IN  /\ sales_data' = IF o = "ok" THEN sales_data \cup {salesData[l.i + 1]}
                                         ELSE sales_data
                        /\ proc' = [proc EXCEPT ![p] =
                              CASE o = "ok"    -> [logged EXCEPT !.rowsInserted = l.rowsInserted + 1]
                                [] o = "error" -> [logged EXCEPT !.pc = FallbackAfterRowError,
                                                      !.errors =
                                                      Append(@, Msg(l.i + 2, "insertError.message"))]
                                [] o = "throw" -> [logged EXCEPT !.pc = FallbackAfterRowError,
                                                      !.errors =
                                                      Append(@, Msg(l.i + 2, "err.message"))]]
           \/ /\ l.i >= Len(salesData)
              /\ proc' = [proc EXCEPT ![p] = [l EXCEPT !.pc = "saveHistory"]]
              /\ sales_data' = sales_data
        /\ UNCHANGED <<upload_history, nextUuid, coercion, dashboard>>

\* part_000 365: status: errors.length > 0 ? 'partial' : 'success'
FallbackStatus(errors) ==
    IF Len(errors) > 0 THEN "partial" ELSE "success"

\* part_000 358-379: the record is written last; its insert error is only logged
FallbackSaveHistory(p) ==
    LET l == proc[p]
        record == [batch_id |-> l.batchId, entity |-> l.entity, file_name |-> l.file.name,
                   rows_uploaded |-> l.rowsInserted,
                   status |-> FallbackStatus(l.errors),
                   error_message |-> l.errors]
    IN  /\ l.pc = "saveHistory"
        /\ l.handler = "fallback"
        /\ \E o \in Outcomes :
              LET logged == [l EXCEPT !.calls = Append(@, Call("upload_history", "insert", 1, o))]
              IN  /\ upload_history' = IF o = "ok" THEN Append(upload_history, record)
                                       ELSE upload_history
                  /\ proc' = [proc EXCEPT ![p] =
                        IF o = "throw"
                        THEN [logged EXCEPT !.pc = "catch"]
                        ELSE [logged EXCEPT !.pc = "done",
                                 !.response = [status |-> 200, success |-> TRUE, error |-> "",
                                               batchId |-> l.batchId,
                                               rowsInserted |-> l.rowsInserted,
                                               rowsSkipped |-> 0, history |-> <<>>]]]
        /\ UNCHANGED <<sales_data, nextUuid, coercion, dashboard>>

\* part_000 380-391: no persistence call
FallbackCatch(p) ==
    LET l == proc[p]
    IN  /\ l.pc = "catch"
        /\ l.handler = "fallback"
        /\ proc' = [proc EXCEPT ![p] =
                [l EXCEPT !.pc = "done",
                          !.response = Response(500, FALSE, "Failed to process upload")]]
        /\ UNCHANGED <<upload_history, sales_data, nextUuid, coercion, dashboard>>

---------------------------------------------------------------------------
Next ==
    \E p \in Procs :
        \/ Receive(p)
        \/ ChunkedValidate(p)
        \/ ChunkedParse(p)
        \/ ChunkedTransform(p)
        \/ ChunkedAllocate(p)
        \/ ChunkedInsertHistory(p)
        \/ ChunkedInsertChunk(p)
        \/ ChunkedMarkFailed(p)
        \/ ChunkedComplete(p)
        \/ ChunkedCatch(p)
        \/ FallbackValidate(p)
        \/ FallbackParse(p)
        \/ FallbackAllocate(p)
        \/ FallbackTableCheck(p)
        \/ FallbackBulkInsert(p)
        \/ FallbackRowInsert(p)
        \/ FallbackSaveHistory(p)
        \/ FallbackCatch(p)

Spec == Init /\ [][Next]_vars

---------------------------------------------------------------------------
(* Two requests served at the same time: each awaited persistence call is  *)
(* a step, and the steps of the two executions interleave in any order.    *)
(* The requests pass validation and parsing, so that both executions reach *)
(* the store.                                                              *)

ConcEntities == {"HQ", "USA"}

\* The records of a request: one full chunk and a short one for the chunked
\* handler, two records for the per-row loop of the fallback handler
ConcRows(h) ==
    IF h = "chunked" THEN [k \in 1..CHUNK_SIZE + 1 |-> "ok"] ELSE <<"ok", "ok">>

ConcFile(h) ==
    [name |-> <<"sales", ".XLSX">>, size |-> 1, type |-> XLSX_MIME,
     content |-> [readable |-> TRUE, rows |-> ConcRows(h)]]

InitConc ==
    /\ proc = [p \in Procs |-> Idle]
    /\ InitStore
    /\ coercion = NoCoercion
    /\ dashboard = NoDashboard

ReceiveConc(p) ==
    /\ proc[p].pc = "idle"
    /\ \E h \in {"chunked", "fallback"}, e \in ConcEntities :
          proc' = [proc EXCEPT ![p] = [@ EXCEPT !.pc = "validate", !.handler = h,
                                                !.file = ConcFile(h), !.entity = e]]
    /\ UNCHANGED <<upload_history, sales_data, nextUuid, coercion, dashboard>>

NextConc ==
    \E p \in Procs :
        \/ ReceiveConc(p)
        \/ ChunkedValidate(p)
        \/ ChunkedParse(p)
        \/ ChunkedTransform(p)
        \/ ChunkedAllocate(p)
        \/ ChunkedInsertHistory(p)
        \/ ChunkedInsertChunk(p)
        \/ ChunkedMarkFailed(p)
        \/ ChunkedComplete(p)
        \/ ChunkedCatch(p)
        \/ FallbackValidate(p)
        \/ FallbackParse(p)
        \/ FallbackAllocate(p)
        \/ FallbackTableCheck(p)
        \/ FallbackBulkInsert(p)
        \/ FallbackRowInsert(p)
        \/ FallbackSaveHistory(p)
        \/ FallbackCatch(p)

SpecConc == InitConc /\ [][NextConc]_vars

---------------------------------------------------------------------------
(* The history endpoint, route.ts GET, asked by the upload page with the   *)
(* entity the user has selected.  upload_history is kept in insertion      *)
(* order, which is the order of uploaded_at (the store's default).         *)

MaxHistory == 3

\* route.ts 465: .limit(20), scaled down
HISTORY_LIMIT == 2

Reverse(s) == [k \in 1..Len(s) |-> s[Len(s) + 1 - k]]

\* The first n elements of s
Take(s, n) == SubSeq(s, 1, IF n < Len(s) THEN n ELSE Len(s))

\* The statuses the upload handlers write: route.ts 355 ('processing'), 388
\* and 435 ('failed'), 411 ('completed'); part_000 365 ('partial', 'success')
WrittenStatuses == {"processing", "failed", "completed", "partial", "success"}

\* The records earlier uploads of the entities have left
HistoryStores ==
    UNION {{[k \in 1..n |->
                [batch_id |-> k, entity |-> es[k], file_name |-> <<"sales", ".XLSX">>,
                 rows_uploaded |-> 1, status |-> ss[k], error_message |-> <<>>]]
            : es \in [1..n -> ConcEntities], ss \in [1..n -> WrittenStatuses]}
           : n \in 0..MaxHistory}

InitHistory ==
    /\ proc = [p \in Procs |-> IF p = 1 THEN Idle ELSE Off]
    /\ upload_history \in HistoryStores
    /\ sales_data = {}
    /\ nextUuid = Len(upload_history) + 1
    /\ coercion = NoCoercion
    /\ dashboard = NoDashboard

\* page.tsx 23-26: fetch(`...?entity=${entity}&limit=20`); "" is a request
\* without an entity parameter
HistoryReceive(p) ==
    /\ proc[p].pc = "idle"
    /\ \E e \in ConcEntities \cup {""} :
          proc' = [proc EXCEPT ![p] = [@ EXCEPT !.pc = "query", !.handler = "history",
                                                !.entity = e]]
    /\ UNCHANGED <<upload_history, sales_data, nextUuid, coercion, dashboard>>

\* route.ts 461-465: select('*').order('uploaded_at', {ascending: false})
\* .limit(20); the handler takes no request and reads no parameter
HistorySelect(history, entity) == Take(Reverse(history), HISTORY_LIMIT)

\* route.ts 457-476
HistoryGET(p) ==
    LET l == proc[p]
    IN  /\ l.pc = "query"
        /\ l.handler = "history"
        /\ \E o \in Outcomes :
              LET logged == [l EXCEPT !.calls =
                                Append(@, Call("upload_history", "select", 0, o)),
                                      !.pc = "done"]
              IN  proc' = [proc EXCEPT ![p] =
                    IF o = "ok"
                    THEN [logged EXCEPT !.response =
                             [NoResponse EXCEPT !.status = 200,
                                 !.history = HistorySelect(upload_history, l.entity)]]
                    ELSE [logged EXCEPT !.response = Response(500, FALSE, "error.message")]]
        /\ UNCHANGED <<upload_history, sales_data, nextUuid, coercion, dashboard>>

\* page.tsx 50-59: getStatusIcon
getStatusIcon(status) ==
    CASE status = "success" -> "CheckCircle2"
      [] status = "failed"  -> "XCircle"
      [] OTHER              -> "Clock"

\* page.tsx 27-31, 108-119: the page keeps data.history and renders the icon
\* of each record's status
PageRender(p) ==
    LET l == proc[p]
    IN  /\ l.pc = "done"
        /\ l.handler = "history"
        /\ l.response.status = 200
        /\ proc' = [proc EXCEPT ![p] =
                [l EXCEPT !.pc = "rendered",
                          !.icons = [k \in 1..Len(l.response.history) |->
                                        getStatusIcon(l.response.history[k].status)]]]
        /\ UNCHANGED <<upload_history, sales_data, nextUuid, coercion, dashboard>>

NextHistory ==
    \E p \in Procs :
        \/ HistoryReceive(p)
        \/ HistoryGET(p)
        \/ PageRender(p)

SpecHistory == InitHistory /\ [][NextHistory]_vars

---------------------------------------------------------------------------
(* The dashboard page, part_000 DashboardPage.  A selection stands for the *)
(* filter values (year, entities, quarter, countries, fg) and 0 for the    *)
(* page before a year is known.  The server's data do not change while the *)
(* page is open, so a dataset is named by the selection it was fetched     *)
(* for, 0 being the empty dataset of the first render.                     *)

MaxFetches == 3

MaxSelections == 2

\* part_000 483-490: the datasets fetchAllData sets one after the other
\* (eight in the source)
DATASETS == 2

Selections == 1..MaxSelections

InitDash ==
    /\ proc = [p \in Procs |-> Off]
    /\ upload_history = <<>>
    /\ sales_data = {}
    /\ nextUuid = 1
    /\ coercion = NoCoercion
    /\ dashboard = [NoDashboard EXCEPT !.open = TRUE, !.years = "fetching",
                                       !.displayed = [d \in 1..DATASETS |-> 0]]

\* part_000 449-473: fetchAllData entered: setLoading(true) and the
\* requests of the selection of this render are sent
startFetchAllData(d, selection) ==
    [d EXCEPT !.loading = TRUE,
              !.calls = Append(@, [selection |-> selection, pc |-> "fetch", next |-> 1,
                                   ok |-> FALSE])]

\* part_000 427-429, 437-447: fetchYears; with years and no year selected the
\* first year is selected, and the effect of 431-435 starts fetchAllData
FetchYears ==
    /\ dashboard.open
    /\ dashboard.years = "fetching"
    /\ \E o \in {"years", "none", "throw"} :
          dashboard' =
              IF o = "years" /\ dashboard.selection = 0
              THEN startFetchAllData([dashboard EXCEPT !.years = "done", !.selection = 1], 1)
              ELSE [dashboard EXCEPT !.years = "done"]
    /\ UNCHANGED <<proc, upload_history, sales_data, nextUuid, coercion>>

\* part_000 431-435: a filter changes while a year is selected, and the
\* effect starts fetchAllData for the new selection
ChangeFilter ==
    /\ dashboard.open
    /\ dashboard.selection # 0
    /\ Len(dashboard.calls) < MaxFetches
    /\ \E s \in Selections \ {dashboard.selection} :
          dashboard' = startFetchAllData([dashboard EXCEPT !.selection = s], s)
    /\ UNCHANGED <<proc, upload_history, sales_data, nextUuid, coercion>>

\* part_000 491-496: catch (toast) and finally of call c
finishFetchAllData(d, c, ok) ==
    [d EXCEPT !.loading = FALSE, !.calls[c].pc = "done", !.calls[c].ok = ok]

\* part_000 463-481: Promise.all of call c settles; a rejected fetch or a
\* response that is not ok goes to the catch block
FetchResolve(c) ==
    /\ c \in 1..Len(dashboard.calls)
    /\ dashboard.calls[c].pc = "fetch"
    /\ \E o \in {"ok", "throw"} :
          dashboard' = IF o = "ok" THEN [dashboard EXCEPT !.calls[c].pc = "json"]
                       ELSE finishFetchAllData(dashboard, c, FALSE)
    /\ UNCHANGED <<proc, upload_history, sales_data, nextUuid, coercion>>

\* part_000 483-490: one setX(await res.json()) of call c: the body is read
\* and the dataset set, or json() raises; after the last one the finally
\* block runs
SetDataset(c) ==
    /\ c \in 1..Len(dashboard.calls)
    /\ dashboard.calls[c].pc = "json"
    /\ \E o \in {"ok", "throw"} :
          LET call == dashboard.calls[c]
              set  == [dashboard EXCEPT !.displayed[call.next] = call.selection,
                                        !.calls[c].next = call.next + 1]
          IN  dashboard' =
                  IF o = "throw" THEN finishFetchAllData(dashboard, c, FALSE)
                  ELSE IF call.next = DATASETS THEN finishFetchAllData(set, c, TRUE)
                  ELSE set
    /\ UNCHANGED <<proc, upload_history, sales_data, nextUuid, coercion>>

NextDash ==
    \/ FetchYears
    \/ ChangeFilter
    \/ \E c \in 1..MaxFetches : FetchResolve(c)
    \/ \E c \in 1..MaxFetches : SetDataset(c)

SpecDash == InitDash /\ [][NextDash]_vars

---------------------------------------------------------------------------
(* Cell coercion: dates.                                                   *)
(*                                                                         *)
(* A calendar day is counted in days from 1899-12-30 (the spreadsheet      *)
(* serial convention) and an instant in hours from 1899-12-30T00:00Z.  A   *)
(* JavaScript Date is an instant or Invalid Date.  The server's time zone  *)
(* is a fixed offset: local time = UTC + offset hours.  A nullable value   *)
(* is <<>> (null) or <<v>>.                                                *)

FirstSerial == 44926     \* 2022-12-31
LastSerial == 44928      \* 2023-01-02

SampleYearFirst == 45292     \* 2024-01-01
SampleYearLast == 45657      \* 2024-12-31

Offsets == {-5, 0, 9}

Null == <<>>

InvalidDate == [valid |-> FALSE, time |-> 0]

Instant(t) == [valid |-> TRUE, time |-> t]

\* The proleptic Gregorian date <<year, month, day>> of a day number, as
\* Date.prototype.toISOString / getFullYear / getMonth compute it
CivilFromDays(serial) ==
    LET z   == serial + 693899
        era == z \div 146097
        doe == z - era * 146097
        yoe == (doe - doe \div 1460 + doe \div 36524 - doe \div 146096) \div 365
        doy == doe - (365 * yoe + yoe \div 4 - yoe \div 100)
        mp  == (5 * doy + 2) \div 153
        d   == doy - (153 * mp + 2) \div 5 + 1
        m   == IF mp < 10 THEN mp + 3 ELSE mp - 9
        y   == yoe + era * 400 + (IF m <= 2 THEN 1 ELSE 0)
    IN  <<y, m, d>>

\* date.toISOString().split('T')[0]: the UTC calendar day
toISODate(date) == CivilFromDays(date.time \div 24)

\* date.getFullYear(), date.getMonth(): the local calendar day's year, month - 1
getFullYear(date, offset) == CivilFromDays((date.time + offset) \div 24)[1]

getMonth(date, offset) == CivilFromDays((date.time + offset) \div 24)[2] - 1

\* new Date(1899, 11, 30).getTime(): local midnight
excelEpoch(offset) == 0 - offset

\* new Date(excelEpoch.getTime() + value * 86400000); a time value beyond
\* 100,000,000 days from 1970-01-01 makes an Invalid Date
DateFromSerial(value, offset) ==
    IF value > 100000000 \/ value < -100000000 THEN InvalidDate
    ELSE Instant(excelEpoch(offset) + value * 24)

\* new Date(text): a date-only ISO text is UTC midnight of its day, another
\* date text is local midnight of its day, any other text is Invalid Date
DateFromString(cell, offset) ==
    CASE cell.form = "iso"   -> Instant(cell.n * 24)
      [] cell.form = "local" -> Instant(cell.n * 24 - offset)
      [] OTHER               -> InvalidDate

\* The raw cells: absent, null, a number (a serial), a text, a Date, a boolean
Cell(t, n, form) == [t |-> t, n |-> n, form |-> form]

Serials == FirstSerial..LastSerial

\* The 15th of every month of the sample year
MidMonthSerials == {d \in SampleYearFirst..SampleYearLast : CivilFromDays(d)[3] = 15}

DateCells ==
    {Cell("undefined", 0, ""), Cell("null", 0, "")}
    \cup {Cell("number", d, "") : d \in Serials \cup {0, 200000000}}
    \cup {Cell("string", d, f) : d \in Serials, f \in {"iso", "local"}}
    \cup {Cell("string", 0, f) : f \in {"empty", "garbage"}}
    \cup {Cell("date", d * 24, "valid") : d \in Serials}
    \cup {Cell("date", 0, "invalid")}
    \cup {Cell("boolean", 0, f) : f \in {"true", "false"}}
    \cup {Cell("number", d, "") : d \in MidMonthSerials}
    \cup {Cell("string", d, "iso") : d \in MidMonthSerials}
    \cup {Cell("date", d * 24, "valid") : d \in MidMonthSerials}

\* JavaScript truthiness of a cell
Truthy(cell) ==
    CASE cell.t \in {"undefined", "null"} -> FALSE
      [] cell.t = "number"  -> cell.n # 0
      [] cell.t = "string"  -> cell.form # "empty"
      [] cell.t = "boolean" -> cell.form = "true"
      [] OTHER              -> TRUE

\* The Date a Date cell holds
DateOfCell(cell) == IF cell.form = "valid" THEN Instant(cell.n) ELSE InvalidDate

\* The date fields of a canonical row; kept is FALSE when the record is
\* dropped because its mapping raised
RowDates(invoice_date, due_date, year, quarter) ==
    [kept |-> TRUE, invoice_date |-> invoice_date, due_date |-> due_date,
     year |-> year, quarter |-> quarter]

DroppedRow ==
    [kept |-> FALSE, invoice_date |-> Null, due_date |-> Null, year |-> Null, quarter |-> Null]

\* route.ts 131-148: the Date a truthy cell parses to when it passes
\* !isNaN(parsedDate.getTime()); a cell of another type raises 'Invalid date
\* type', which the inner catch (153-155) turns into null
ChunkedParsedDate(cell, offset) ==
    IF ~Truthy(cell) THEN Null
    ELSE LET parsedDate ==
                 CASE cell.t = "number" -> <<DateFromSerial(cell.n, offset)>>
                   [] cell.t = "string" -> <<DateFromString(cell, offset)>>
                   [] cell.t = "date"   -> <<DateOfCell(cell)>>
                   [] OTHER             -> Null
         IN  IF parsedDate # Null /\ parsedDate[1].valid THEN parsedDate ELSE Null

\* A variant of quarterOf: the month taken as one-based
quarterOf_OneBased(month0) == (month0 + 1) \div 3 + 1

\* route.ts 151: `Q${Math.floor(parsedDate.getMonth() / 3) + 1}`; the number
\* n stands for the text "Q" + n
quarterOf(month0) == month0 \div 3 + 1

\* route.ts 126-180: invoice date, year, quarter and due date of a record
\* whose 'Invoice date' and 'Due date' cells are invoiceCell and dueCell
ChunkedRowDates(invoiceCell, dueCell, offset) ==
    LET inv == ChunkedParsedDate(invoiceCell, offset)
        due == ChunkedParsedDate(dueCell, offset)
    IN  RowDates(IF inv = Null THEN Null ELSE <<toISODate(inv[1])>>,
                 IF due = Null THEN Null ELSE <<toISODate(due[1])>>,
                 IF inv = Null THEN Null ELSE <<getFullYear(inv[1], offset)>>,
                 IF inv = Null THEN Null ELSE <<quarterOf(getMonth(inv[1], offset))>>)

\* part_000 159-168: a Date cell and a number are returned without a look at
\* their time value; new Date(true) is 1 ms after 1970-01-01T00:00Z
parseDateValue(value, offset) ==
    IF ~Truthy(value) THEN Null
    ELSE IF value.t = "date" THEN <<DateOfCell(value)>>
    ELSE IF value.t = "number" THEN <<DateFromSerial(value.n, offset)>>
    ELSE LET date == IF value.t = "string" THEN DateFromString(value, offset)
                     ELSE Instant(25569 * 24)
         IN  IF date.valid THEN <<date>> ELSE Null

\* lib/utils/formatters getYearFromDate: the calendar year of the date, null
\* for a date that is none
getYearFromDate(date, offset) ==
    IF date.valid THEN <<getFullYear(date, offset)>> ELSE Null

\* lib/utils/formatters getQuarterFromDate: floor(month0 / 3) + 1, null for
\* a date that is none
getQuarterFromDate(date, offset) ==
    IF date.valid THEN <<getMonth(date, offset) \div 3 + 1>> ELSE Null

\* a || b
OrElse(a, b) == IF Truthy(a) THEN a ELSE b

\* part_000 173-183 and 289-293: year and quarter from 'Invoice date' or,
\* when that is falsy, 'Date'; the date columns from their own cells, where
\* toISOString() raises on an Invalid Date and the record is dropped (309-312)
FallbackRowDates(invoiceCell, dateCell, dueCell, offset) ==
    LET invoiceDate == parseDateValue(OrElse(invoiceCell, dateCell), offset)
        inv == parseDateValue(invoiceCell, offset)
        due == parseDateValue(dueCell, offset)
    IN  IF (inv # Null /\ ~inv[1].valid) \/ (due # Null /\ ~due[1].valid)
        THEN DroppedRow
        ELSE RowDates(IF inv = Null THEN Null ELSE <<toISODate(inv[1])>>,
                      IF due = Null THEN Null ELSE <<toISODate(due[1])>>,
                      IF invoiceDate = Null THEN Null
                      ELSE getYearFromDate(invoiceDate[1], offset),
                      IF invoiceDate = Null THEN Null
                      ELSE getQuarterFromDate(invoiceDate[1], offset))

---------------------------------------------------------------------------
(* Cell coercion: numbers.                                                 *)
(*                                                                         *)
(* A text is a sequence of characters.  A JavaScript number is NaN or a    *)
(* value counted in thousandths.                                           *)

MaxTextLen == 3

Chars == {"0", "1", ".", "-", "$", ","}

Texts == UNION {[1..n -> Chars] : n \in 0..MaxTextLen}

Digits == {"0", "1", "2", "3", "4", "5", "6", "7", "8", "9"}

NaN == [nan |-> TRUE, milli |-> 0]

Num(milli) == [nan |-> FALSE, milli |-> milli]

\* The raw cells: absent, null, a number (in thousandths), a text
NumberCell(t, n, s) == [t |-> t, n |-> n, s |-> s]

NumberCells ==
    {NumberCell("undefined", 0, <<>>), NumberCell("null", 0, <<>>)}
    \cup {NumberCell("number", n, <<>>) : n \in {0, 1500, -2000}}
    \cup {NumberCell("string", 0, s) : s \in Texts}

\* String(value) of a cell that is not a number
StringOf(value) ==
    CASE value.t = "string"    -> value.s
      [] value.t = "null"      -> <<"n", "u", "l", "l">>
      [] value.t = "undefined" -> <<"u", "n", "d", "e", "f", "i", "n", "e", "d">>

\* text.replace(/[^0-9.-]/g, '') and text.replace(/[^\d.-]/g, '')
stripped(s) == SelectSeq(s, LAMBDA c : c \in Digits \cup {".", "-"})

DigitValue(c) ==
    CASE c = "0" -> 0 [] c = "1" -> 1 [] c = "2" -> 2 [] c = "3" -> 3 [] c = "4" -> 4
      [] c = "5" -> 5 [] c = "6" -> 6 [] c = "7" -> 7 [] c = "8" -> 8 [] c = "9" -> 9

\* The longest prefix of s made of digits
RECURSIVE DigitPrefix(_)
DigitPrefix(s) ==
    IF s = <<>> \/ Head(s) \notin Digits THEN <<>>
    ELSE <<Head(s)>> \o DigitPrefix(Tail(s))

\* The value of a sequence of digits
RECURSIVE IntValue(_)
IntValue(ds) ==
    IF ds = <<>> THEN 0
    ELSE IntValue(SubSeq(ds, 1, Len(ds) - 1)) * 10 + DigitValue(ds[Len(ds)])

\* The thousandths the digits after the point stand for
FracMilli(ds) ==
    LET digit(k) == IF k <= Len(ds) THEN DigitValue(ds[k]) ELSE 0
    IN  digit(1) * 100 + digit(2) * 10 + digit(3)

\* parseFloat(s) of a text of digits, points and minus signs: the longest
\* prefix that is a decimal literal, NaN when there is none
parseFloat(s) ==
    LET neg  == s # <<>> /\ Head(s) = "-"
        body == IF neg THEN Tail(s) ELSE s
        int  == DigitPrefix(body)
        rest == SubSeq(body, Len(int) + 1, Len(body))
        frac == IF rest # <<>> /\ Head(rest) = "." THEN DigitPrefix(Tail(rest)) ELSE <<>>
        abs  == IntValue(int) * 1000 + FracMilli(frac)
    IN  IF int = <<>> /\ frac = <<>> THEN NaN
        ELSE Num(IF neg THEN 0 - abs ELSE abs)

\* route.ts 211-215: parseNumber
ChunkedParseNumber(value) ==
    IF value.t \in {"null", "undefined"} \/ (value.t = "string" /\ value.s = <<>>)
    THEN Null
    ELSE LET num == IF value.t = "string" THEN parseFloat(stripped(value.s))
                    ELSE Num(value.n)
         IN  IF num.nan THEN Null ELSE <<num.milli>>

\* part_000 20-24: parseNumber; parseFloat(cleaned) || 0
FallbackParseNumber(value) ==
    IF value.t = "number" THEN Num(value.n)
    ELSE LET parsed == parseFloat(stripped(StringOf(value)))
         IN  IF parsed.nan \/ parsed.milli = 0 THEN Num(0) ELSE parsed

\* part_000 295-300: the value stored in a numeric column
FallbackNumberColumn(value) ==
    LET numValue == FallbackParseNumber(value)
    IN  IF numValue.nan THEN Null ELSE <<numValue.milli>>

---------------------------------------------------------------------------
(* Header lookup.                                                          *)
(*                                                                         *)
(* A raw record is the sequence of its <<header, value>> pairs in key      *)
(* order, each header at most once; the values are non-empty texts.        *)

\* The header of the mapped column looked up, a case variant of it, and a
\* header no column is mapped from
Headers == {"Invoice", "INVOICE", "Memo"}

CellTexts == {"x", "y"}

Records ==
    {r \in UNION {[1..n -> Headers \X CellTexts] : n \in 0..Cardinality(Headers)} :
        \A i, j \in 1..Len(r) : r[i][1] = r[j][1] => i = j}

\* Object.keys(row)
Keys(row) == [k \in 1..Len(row) |-> row[k][1]]

\* row[key]: undefined (<<>>) when the record has no such key
Get(row, key) ==
    LET at == {k \in 1..Len(row) : row[k][1] = key}
    IN  IF at = {} THEN <<>> ELSE <<row[CHOOSE k \in at : TRUE][2]>>

\* keys.find(k => k.toLowerCase() === lower): the first such key, <<>> when
\* there is none
Find(keys, lower) ==
    LET at == {k \in 1..Len(keys) : toLowerCase(keys[k]) = lower}
    IN  IF at = {} THEN <<>> ELSE <<keys[CHOOSE k \in at : \A j \in at : k <= j]>>

\* part_000 146-156: getValue
getValue(row, columnName) ==
    IF Get(row, columnName) # <<>> THEN Get(row, columnName)
    ELSE LET matchedKey == Find(Keys(row), toLowerCase(columnName))
         IN  IF matchedKey # <<>> THEN Get(row, matchedKey[1]) ELSE Null

\* part_000 287, 302-304: the text column 'Invoice' of the canonical row;
\* String(value).trim() leaves a text of CellTexts as it is
FallbackTextColumn(row) == getValue(row, "Invoice")

\* route.ts 225: invoice: row['Invoice'] || null
ChunkedTextColumn(row) == Get(row, "Invoice")

---------------------------------------------------------------------------
(* The column mappings: which canonical field a spreadsheet header fills   *)
(* and with which kind of coercion.                                        *)

\* route.ts 217-312 (with 131, 160, 186 for the date fields): the triples
\* <<header, field, kind>> of mappedRow; parseNumber(row[h]) is a number,
\* row[h] || null a text, the three parsed dates a date
mappedRowColumns == {
    <<"Sales Type", "sales_type", "text">>, <<"Invoice", "invoice", "text">>,
     <<"Voucher", "voucher", "text">>, <<"Invoice date", "invoice_date", "date">>,
     <<"Pool", "pool", "text">>, <<"Supply method", "supply_method", "text">>,
     <<"Sub Method - 1", "sub_method_1", "text">>, <<"Sub Method - 2", "sub_method_2", "text">>,
     <<"Sub Method - 3", "sub_method_3", "text">>, <<"Application", "application", "text">>,
     <<"Industry", "industry", "text">>, <<"Sub Industry - 1", "sub_industry_1", "text">>,
     <<"Sub Industry - 2", "sub_industry_2", "text">>, <<"General group", "general_group", "text">>,
     <<"Sales order", "sales_order", "text">>, <<"Account number", "account_number", "text">>,
     <<"Name", "name", "text">>, <<"Name2", "name2", "text">>,
     <<"Customer invoice account", "customer_invoice_account", "text">>,
     <<"Invoice account", "invoice_account", "text">>, <<"Group", "group", "text">>,
     <<"Currency", "currency", "text">>, <<"Invoice Amount", "invoice_amount", "number">>,
     <<"Invoice Amount_MST", "invoice_amount_mst", "number">>,
     <<"Sales tax amount", "sales_tax_amount", "number">>,
     <<"The sales tax amount, in the accounting currency", "sales_tax_amount_accounting", "number">>,
     <<"Total for invoice", "total_for_invoice", "number">>, <<"Total_MST", "total_mst", "number">>,
     <<"Open balance", "open_balance", "number">>, <<"Due date", "due_date", "date">>,
     <<"Sales tax group", "sales_tax_group", "text">>, <<"Payment type", "payment_type", "text">>,
     <<"Terms of payment", "terms_of_payment", "text">>,
     <<"Payment schedule", "payment_schedule", "text">>,
     <<"Method of payment", "method_of_payment", "text">>,
     <<"Posting profile", "posting_profile", "text">>,
     <<"Delivery terms", "delivery_terms", "text">>, <<"H_DIM_WK", "h_dim_wk", "text">>,
     <<"H_WK_NAME", "h_wk_name", "text">>, <<"H_DIM_CC", "h_dim_cc", "text">>,
     <<"H_DIM_NAME", "h_dim_name", "text">>, <<"Line number", "line_number", "number">>,
     <<"Street", "street", "text">>, <<"City", "city", "text">>, <<"State", "state", "text">>,
     <<"ZIP/postal code", "zip_postal_code", "text">>, <<"Final ZipCode", "final_zipcode", "text">>,
     <<"Region", "region", "text">>, <<"Product type", "product_type", "text">>,
     <<"Item group", "item_group", "text">>, <<"Category", "category", "text">>,
     <<"Model", "model", "text">>, <<"Item number", "item_number", "text">>,
     <<"Product name", "product_name", "text">>, <<"Text", "text", "text">>,
     <<"Warehouse", "warehouse", "text">>, <<"Name3", "name3", "text">>,
     <<"Quantity", "quantity", "number">>, <<"Inventory unit", "inventory_unit", "text">>,
     <<"Price unit", "price_unit", "number">>, <<"Net amount", "net_amount", "number">>,
     <<"Line Amount_MST", "line_amount_mst", "number">>,
     <<"Sales tax group2", "sales_tax_group2", "text">>,
     <<"TaxItemGroup", "tax_item_group", "text">>,
     <<"Mode of delivery", "mode_of_delivery", "text">>, <<"Dlv Detail", "dlv_detail", "text">>,
     <<"Online order", "online_order", "text">>, <<"Sales channel", "sales_channel", "text">>,
     <<"Promotion", "promotion", "text">>, <<"2nd Sales", "second_sales", "text">>,
     <<"Personnel number", "personnel_number", "text">>, <<"WORKERNAME", "worker_name", "text">>,
     <<"L_DIM_NAME", "l_dim_name", "text">>, <<"L_DIM_WK", "l_dim_wk", "text">>,
     <<"L_WK_NAME", "l_wk_name", "text">>, <<"L_DIM_CC", "l_dim_cc", "text">>,
     <<"Main account", "main_account", "text">>, <<"Account name", "account_name", "text">>,
     <<"Rebate", "rebate", "number">>, <<"Description", "description", "text">>,
     <<"Country", "country", "text">>, <<"CREATEDDATE", "created_date", "date">>,
     <<"CREATEDBY", "created_by", "text">>, <<"Exception", "exception", "text">>,
     <<"With collection agency", "with_collection_agency", "text">>,
     <<"Credit rating", "credit_rating", "text">>}

\* part_000 195-282: the pairs <<header, dbCol>> of columnMapping
columnMapping == {
    <<"Sales Type", "sales_type">>, <<"Invoice", "invoice">>, <<"Voucher", "voucher">>,
     <<"Invoice date", "invoice_date">>, <<"Pool", "pool">>, <<"Supply method", "supply_method">>,
     <<"Sub Method - 1", "sub_method_1">>, <<"Sub Method - 2", "sub_method_2">>,
     <<"Sub Method - 3", "sub_method_3">>, <<"Application", "application">>,
     <<"Industry", "industry">>, <<"Sub Industry - 1", "sub_industry_1">>,
     <<"Sub Industry - 2", "sub_industry_2">>, <<"General group", "general_group">>,
     <<"Sales order", "sales_order">>, <<"Account number", "account_number">>, <<"Name", "name">>,
     <<"Name2", "name2">>, <<"Customer invoice account", "customer_invoice_account">>,
     <<"Invoice account", "invoice_account">>, <<"Group", "group">>, <<"Currency", "currency">>,
     <<"Invoice Amount", "invoice_amount">>, <<"Invoice Amount_MST", "invoice_amount_mst">>,
     <<"Sales tax amount", "sales_tax_amount">>,
     <<"The sales tax amount, in the accounting currency", "sales_tax_amount_accounting">>,
     <<"Total for invoice", "total_for_invoice">>, <<"Total_MST", "total_mst">>,
     <<"Open balance", "open_balance">>, <<"Due date", "due_date">>,
     <<"Sales tax group", "sales_tax_group">>, <<"Payment type", "payment_type">>,
     <<"Terms of payment", "terms_of_payment">>, <<"Payment schedule", "payment_schedule">>,
     <<"Method of payment", "method_of_payment">>, <<"Posting profile", "posting_profile">>,
     <<"Delivery terms", "delivery_terms">>, <<"H_DIM_WK", "h_dim_wk">>,
     <<"H_WK_NAME", "h_wk_name">>, <<"H_DIM_CC", "h_dim_cc">>, <<"H DIM NAME", "h_dim_name">>,
     <<"Line number", "line_number">>, <<"Street", "street">>, <<"City", "city">>,
     <<"State", "state">>, <<"ZIP/postal code", "zip_postal_code">>,
     <<"Final ZipCode", "final_zipcode">>, <<"Region", "region">>,
     <<"Product type", "product_type">>, <<"Item group", "item_group">>, <<"Category", "category">>,
     <<"Model", "model">>, <<"Item number", "item_number">>, <<"Product name", "product_name">>,
     <<"Text", "text">>, <<"Warehouse", "warehouse">>, <<"Name3", "name3">>,
     <<"Quantity", "quantity">>, <<"Inventory unit", "inventory_unit">>,
     <<"Price unit", "price_unit">>, <<"Net amount", "net_amount">>,
     <<"Line Amount_MST", "line_amount_mst">>, <<"Sales tax group2", "sales_tax_group2">>,
     <<"TaxItemGroup", "tax_item_group">>, <<"Mode of delivery", "mode_of_delivery">>,
     <<"Dlv Detail", "dlv_detail">>, <<"Online order", "online_order">>,
     <<"Sales channel", "sales_channel">>, <<"Promotion", "promotion">>,
     <<"2nd Sales", "second_sales">>, <<"Personnel number", "personnel_number">>,
     <<"WORKERNAME", "worker_name">>, <<"L DIM NAME", "l_dim_name">>, <<"L_DIM_WK", "l_dim_wk">>,
     <<"L_WK_NAME", "l_wk_name">>, <<"L_DIM_CC", "l_dim_cc">>, <<"Main account", "main_account">>,
     <<"Account name", "account_name">>, <<"Rebate", "rebate">>, <<"Description", "description">>,
     <<"Country", "country">>, <<"CREATEDDATE", "created_date">>, <<"CREATEDBY", "created_by">>,
     <<"Exception", "exception">>, <<"With collection agency", "with_collection_agency">>,
     <<"Credit rating", "credit_rating">>}

\* dbCol.includes(part) on the dbCols of columnMapping
includes(dbCol, part) ==
    CASE part = "_date"    -> dbCol \in {"invoice_date", "due_date", "created_date"}
      [] part = "amount"   -> dbCol \in
             {"invoice_amount", "invoice_amount_mst", "sales_tax_amount"} \cup
             {"sales_tax_amount_accounting", "net_amount", "line_amount_mst"}
      [] part = "balance"  -> dbCol \in {"open_balance"}
      [] part = "quantity" -> dbCol \in {"quantity"}

\* part_000 289-304: the coercion chosen from the name of the dbCol
FallbackKind(dbCol) ==
    IF includes(dbCol, "_date") \/ dbCol = "created_date" THEN "date"
    ELSE IF \/ includes(dbCol, "amount") \/ includes(dbCol, "balance")
            \/ includes(dbCol, "quantity") \/ dbCol = "line_number"
            \/ dbCol = "price_unit" \/ dbCol = "rebate"
    THEN "number"
    ELSE "text"

\* The <<field, kind>> pairs each handler fills from the cell under a header
ChunkedFieldsOf(header) == {<<c[2], c[3]>> : c \in {t \in mappedRowColumns : t[1] = header}}

FallbackFieldsOf(header) ==
    {<<c[2], FallbackKind(c[2])>> : c \in {t \in columnMapping : t[1] = header}}

\* The headers of a sheet: those of either mapping and one of neither
SheetHeaders ==
    {c[1] : c \in mappedRowColumns} \cup {c[1] : c \in columnMapping} \cup {"Memo"}

---------------------------------------------------------------------------
(* One coercion at a time: a cell (for the dates also the 'Date' cell of   *)
(* the record and the server's offset) is drawn, and one of the handlers'  *)
(* coercions is applied to it.                                             *)

DateColumnCells == {Cell("undefined", 0, ""), Cell("number", FirstSerial, "")}

DateProbes ==
    {[fn |-> "date", handler |-> "none", cell |-> c, dateCell |-> d, offset |-> o,
      out |-> DroppedRow] : c \in DateCells, d \in DateColumnCells, o \in Offsets}

NumberProbes ==
    {[fn |-> "number", handler |-> "none", cell |-> c, out |-> Null] : c \in NumberCells}

LookupProbes ==
    {[fn |-> "lookup", handler |-> "none", row |-> r, out |-> Null] : r \in Records}

\* A header, and what each handler fills from it once the handler has run
MappingProbes ==
    {[fn |-> "mapping", handler |-> "none", header |-> h, chunked |-> Null,
      fallback |-> Null] : h \in SheetHeaders}

InitCoerce ==
    /\ proc = [p \in Procs |-> Off]
    /\ upload_history = <<>>
    /\ sales_data = {}
    /\ nextUuid = 1
    /\ coercion \in DateProbes \cup NumberProbes \cup LookupProbes \cup MappingProbes
    /\ dashboard = NoDashboard

\* route.ts 126-180 on a record whose 'Invoice date' and 'Due date' cells
\* both hold the cell
ChunkedDates ==
    /\ coercion.fn = "date"
    /\ coercion.handler = "none"
    /\ coercion' = [coercion EXCEPT !.handler = "chunked",
                       !.out = ChunkedRowDates(coercion.cell, coercion.cell, coercion.offset)]
    /\ UNCHANGED <<proc, upload_history, sales_data, nextUuid, dashboard>>

\* part_000 173-183, 290-293 on such a record
FallbackDates ==
    /\ coercion.fn = "date"
    /\ coercion.handler = "none"
    /\ coercion' = [coercion EXCEPT !.handler = "fallback",
                       !.out = FallbackRowDates(coercion.cell, coercion.dateCell,
                                                coercion.cell, coercion.offset)]
    /\ UNCHANGED <<proc, upload_history, sales_data, nextUuid, dashboard>>

\* route.ts 211-215 on the cell of a numeric column
ChunkedNumber ==
    /\ coercion.fn = "number"
    /\ coercion.handler = "none"
    /\ coercion' = [coercion EXCEPT !.handler = "chunked",
                                    !.out = ChunkedParseNumber(coercion.cell)]
    /\ UNCHANGED <<proc, upload_history, sales_data, nextUuid, dashboard>>

\* part_000 295-300 on the cell of a numeric column
FallbackNumber ==
    /\ coercion.fn = "number"
    /\ coercion.handler = "none"
    /\ coercion' = [coercion EXCEPT !.handler = "fallback",
                                    !.out = FallbackNumberColumn(coercion.cell)]
    /\ UNCHANGED <<proc, upload_history, sales_data, nextUuid, dashboard>>

\* route.ts 225 on a record
ChunkedLookup ==
    /\ coercion.fn = "lookup"
    /\ coercion.handler = "none"
    /\ coercion' = [coercion EXCEPT !.handler = "chunked",
                                    !.out = ChunkedTextColumn(coercion.row)]
    /\ UNCHANGED <<proc, upload_history, sales_data, nextUuid, dashboard>>

\* part_000 285-304 on a record
FallbackLookup ==
    /\ coercion.fn = "lookup"
    /\ coercion.handler = "none"
    /\ coercion' = [coercion EXCEPT !.handler = "fallback",
                                    !.out = FallbackTextColumn(coercion.row)]
    /\ UNCHANGED <<proc, upload_history, sales_data, nextUuid, dashboard>>

\* route.ts 217-312 on the cell under the header
ChunkedMapping ==
    /\ coercion.fn = "mapping"
    /\ coercion.chunked = Null
    /\ coercion' = [coercion EXCEPT !.handler = "chunked",
                                    !.chunked = <<ChunkedFieldsOf(coercion.header)>>]
    /\ UNCHANGED <<proc, upload_history, sales_data, nextUuid, dashboard>>

\* part_000 285-305 on the cell under the header
FallbackMapping ==
    /\ coercion.fn = "mapping"
    /\ coercion.fallback = Null
    /\ coercion' = [coercion EXCEPT !.handler = "fallback",
                                    !.fallback = <<FallbackFieldsOf(coercion.header)>>]
    /\ UNCHANGED <<proc, upload_history, sales_data, nextUuid, dashboard>>

NextCoerce ==
    \/ ChunkedDates
    \/ FallbackDates
    \/ ChunkedNumber
    \/ FallbackNumber
    \/ ChunkedLookup
    \/ FallbackLookup
    \/ ChunkedMapping
    \/ FallbackMapping

SpecCoerce == InitCoerce /\ [][NextCoerce]_vars

---------------------------------------------------------------------------
(* Vocabulary of the properties.                                           *)

Terminal == {"completed", "success", "partial", "failed"}

Returned(p) == proc[p].pc = "done"

\* The upload_history records of batch b
RecordsOf(b) == {k \in 1..Len(upload_history) : upload_history[k].batch_id = b}

\* The sales_data rows of batch b
RowsOf(b) == {r \in sales_data : r.upload_batch_id = b}

\* The calls execution p has issued on a table with an operation
CallsOf(p, table, op) ==
    {j \in 1..Len(proc[p].calls) : proc[p].calls[j].table = table /\ proc[p].calls[j].op = op}

ValidationRejections ==
    {"No file provided", "No entity selected", "Invalid entity", "File too large",
     "Invalid file type", "Please select a specific entity",
     "File size exceeds maximum limit"}

ParseRejections ==
    {"Failed to parse Excel file", "Excel file is empty",
     "Excel file is empty or could not be parsed"}

\* The store is as it was when the only running execution started, and no
\* identifier has been drawn
StoreUntouched ==
    \/ nextUuid = 1 /\ upload_history = <<>> /\ sales_data = {}
    \/ nextUuid = 2 /\ upload_history = PriorHistory /\ sales_data = PriorSales

---------------------------------------------------------------------------
C2_RecordBeforeRows ==
    \A p \in Procs :
        CallsOf(p, "sales_data", "insert") # {} => RecordsOf(proc[p].batchId) # {}

(* C3, as claimed: a returned execution that drew a batch identifier and   *)
(* saw a persistence call fail or raise has a record of its batch whose    *)
(* status or error detail shows the failure.                               *)
C3_FailureRecorded ==
    \A p \in Procs :
        ( /\ Returned(p)
          /\ proc[p].batchId # NoBatch
          /\ \E j \in 1..Len(proc[p].calls) : proc[p].calls[j].outcome # "ok" ) =>
            \E k \in RecordsOf(proc[p].batchId) :
                \/ upload_history[k].status \in {"failed", "partial"}
                \/ upload_history[k].error_message # <<>>

(* C4, as claimed: when an execution has returned, rows_uploaded of its    *)
(* record equals the number of its rows in sales_data.                     *)
C4_CountMatchesRows ==
    \A p \in Procs :
        Returned(p) =>
            \A k \in RecordsOf(proc[p].batchId) :
                upload_history[k].rows_uploaded = Cardinality(RowsOf(proc[p].batchId))

(* C5: a record whose status is terminal keeps that status in every later  *)
(* step (and so never returns to 'processing').                            *)
C5_OneTerminalStatus ==
    [][\A k \in 1..Len(upload_history) :
          upload_history[k].status \in Terminal =>
              /\ k <= Len(upload_history')
              /\ upload_history'[k].batch_id = upload_history[k].batch_id
              /\ upload_history'[k].status = upload_history[k].status]_vars

C5_Witness ==
    \E p \in Procs :
        /\ proc[p].handler = "chunked" /\ Returned(p)
        /\ proc[p].response.error = "Internal server error"
        /\ \E k \in RecordsOf(proc[p].batchId) : upload_history[k].status = "failed"

(* C6, as claimed: an execution holds a batch identifier only when its     *)
(* transformed set has at least one row, and an execution that returned    *)
(* with an empty transformed set was not answered as a success and wrote   *)
(* no record.                                                              *)
C6_AllocatedAfterRows ==
    \A p \in Procs :
        /\ proc[p].batchId # NoBatch => Len(proc[p].transformedData) >= 1
        /\ (Returned(p) /\ Len(proc[p].transformedData) = 0) =>
              /\ proc[p].response.status # 200
              /\ RecordsOf(proc[p].batchId) = {}

(* C7: an execution answered with a validation or parse rejection has      *)
(* issued no persistence call, holds no batch identifier, and the store is *)
(* as it was before the request.                                           *)
C7_RejectionLeavesStore ==
    \A p \in Procs :
        (Returned(p) /\ proc[p].response.error \in ValidationRejections \cup ParseRejections) =>
            /\ proc[p].response.status = 400
            /\ proc[p].calls = <<>>
            /\ proc[p].batchId = NoBatch
            /\ StoreUntouched

C7_Witness ==
    \E p \in Procs :
        /\ Returned(p)
        /\ proc[p].response.error \in ParseRejections
        /\ upload_history = PriorHistory

(* C8, as claimed: only a request whose entity is in the enumeration gets  *)
(* past validation, and every persisted row and record has such an entity. *)
C8_EntityInEnumeration ==
    /\ \A p \in Procs :
          proc[p].pc \in {"parse", "transform", "allocate", "tableCheck", "insertHistory",
                          "insertChunk", "bulkInsert", "rowInsert", "saveHistory"}
              => proc[p].entity \in validEntities
    /\ \A r \in sales_data : r.entity \in validEntities
    /\ \A k \in 1..Len(upload_history) : upload_history[k].entity \in validEntities

\* The file types handler h accepts
validTypesOf(h) == IF h = "chunked" THEN validTypesChunked ELSE validTypesFallback

(* C9, as claimed: an execution is answered 'Invalid file type' only when  *)
(* the content type is not accepted and the name has no accepted           *)
(* extension, and no such file gets past validation.                       *)
C9_TypeRejectedIffNeither ==
    \A p \in Procs :
        LET l == proc[p]
            neither == /\ l.file.type \notin validTypesOf(l.handler)
                       /\ ~hasValidExtension(l.file.name)
        IN  /\ (Returned(p) /\ l.response.error = "Invalid file type") => neither
            /\ l.pc \in {"parse", "transform", "allocate", "tableCheck", "insertHistory",
                         "insertChunk", "bulkInsert", "rowInsert", "saveHistory"}
                  => ~neither

(* C10, as claimed: an upload declared text/plain is answered 400 and      *)
(* creates no record, whatever its file name.                              *)
C10_TextPlainRejected ==
    \A p \in Procs :
        (proc[p].file.type = "text/plain") =>
            /\ proc[p].pc \in {"validate", "done"}
            /\ Returned(p) => proc[p].response.status = 400
            /\ RecordsOf(proc[p].batchId) = {}

(* C10, amended: an upload declared text/plain whose file name has no      *)
(* accepted extension is answered 400 and creates no record.               *)
C10_TextPlainNoExtensionRejected ==
    \A p \in Procs :
        (proc[p].file.type = "text/plain" /\ ~hasValidExtension(proc[p].file.name)) =>
            /\ proc[p].pc \in {"validate", "done"}
            /\ Returned(p) => proc[p].response.status = 400
            /\ proc[p].batchId = NoBatch
            /\ StoreUntouched

C10_Witness ==
    \E p \in Procs :
        /\ proc[p].handler = "fallback" /\ Returned(p)
        /\ proc[p].file.type = "text/plain"
        /\ proc[p].response.error = "Invalid file type"

---------------------------------------------------------------------------
(* C11: the order of the validation checks.                                *)

\* The four checks, by what each handler tests of the request it holds
FileMissing(l) == l.file = NoFile

EntityRefused(l) ==
    IF l.handler = "chunked" THEN l.entity \notin validEntities
    ELSE l.entity \in {"", "All"}

SizeRefused(l) ==
    l.file.size > (IF l.handler = "chunked" THEN MAX_FILE_SIZE_CHUNKED ELSE MAX_FILE_SIZE)

TypeRefused(l) ==
    IF l.handler = "chunked" THEN l.file.type \notin validTypesChunked
    ELSE ~hasValidExtension(l.file.name) /\ l.file.type \notin validTypesFallback

FileErrors == {"No file provided"}

EntityErrors == {"No entity selected", "Invalid entity", "Please select a specific entity"}

SizeErrors == {"File too large", "File size exceeds maximum limit"}

TypeErrors == {"Invalid file type"}

\* C11: in both handlers the checks run in the order file present, entity,
\* size, type, and the answer carries the error of the earliest check the
\* request fails, whatever later checks it fails too: a request without a
\* file is answered with the missing-file error even when its entity is
\* invalid as well.
C11_EarliestCheckReported ==
    \A p \in Procs :
        Returned(p) =>
            LET l == proc[p]
                e == l.response.error
            IN  /\ FileMissing(l) => e \in FileErrors
                /\ ~FileMissing(l) /\ EntityRefused(l) => e \in EntityErrors
                /\ ~FileMissing(l) /\ ~EntityRefused(l) /\ SizeRefused(l) => e \in SizeErrors
                /\ ~FileMissing(l) /\ ~EntityRefused(l) /\ ~SizeRefused(l) /\ TypeRefused(l)
                      => e \in TypeErrors

\* A request with no file and an entity outside the enumeration was answered
\* with the missing-file error
C11_Witness ==
    \E p \in Procs :
        /\ Returned(p)
        /\ proc[p].file = NoFile
        /\ proc[p].entity \notin validEntities
        /\ proc[p].response.status = 400
        /\ proc[p].response.error = "No file provided"

---------------------------------------------------------------------------
(* C12: the HTTP status of a failure.                                      *)

\* Execution p has issued a write that the store refused or that raised
PersistenceFailed(p) ==
    \E j \in 1..Len(proc[p].calls) :
        /\ proc[p].calls[j].op \in {"insert", "update"}
        /\ proc[p].calls[j].outcome # "ok"

\* C12: in both handlers a validation or parse failure is answered with
\* status 400, and an execution in which a persistence write failed (the
\* history insert, a chunk or bulk insert, the row inserts) is answered with
\* status 500, never with a 2xx.
C12_StatusByFailureKind ==
    \A p \in Procs :
        Returned(p) =>
            /\ proc[p].response.error \in
                    ValidationRejections \cup ParseRejections \cup {"Data validation failed"}
                  => proc[p].response.status = 400
            /\ PersistenceFailed(p) => proc[p].response.status = 500

---------------------------------------------------------------------------
(* C14: the batch id and entity of the rows handed to the store.           *)

\* The positions at which execution p hands rows to a sales_data insert
Inserting == {"insertChunk", "bulkInsert", "rowInsert"}

\* C14: in both handlers every row an ingestion hands to a sales_data insert
\* carries the request's entity and the ingestion's batch id, which is not
\* the empty placeholder and is the batch_id of the ingestion's
\* upload_history record; no stored row has the placeholder as its batch id.
C14_RowsCarryBatchAndEntity ==
    /\ \A p \in Procs :
          proc[p].pc \in Inserting =>
              /\ proc[p].batchId # NoBatch
              /\ \A k \in 1..Len(proc[p].transformedData) :
                    /\ proc[p].transformedData[k].upload_batch_id = proc[p].batchId
                    /\ proc[p].transformedData[k].entity = proc[p].entity
    /\ \A r \in sales_data \ PriorSales :
          /\ r.upload_batch_id # NoBatch
          /\ \E p \in Procs :
                r.upload_batch_id = proc[p].batchId /\ r.entity = proc[p].entity
          /\ \A k \in 1..Len(upload_history) :
                upload_history[k] \notin Range(PriorHistory)
                    => upload_history[k].batch_id = r.upload_batch_id

\* The chunked handler stored a chunk of two rows, each with the batch id of
\* the record written before it
C14_Witness ==
    \E p \in Procs :
        /\ proc[p].handler = "chunked"
        /\ proc[p].pc = "insertChunk"
        /\ Cardinality(RowsOf(proc[p].batchId)) >= 2
        /\ RecordsOf(proc[p].batchId) # {}

---------------------------------------------------------------------------
(* C16: an insert is attempted for every canonical row.                    *)

\* The sales_data insert calls of execution p, in the order issued
InsertCalls(p) == SelectSeq(proc[p].calls,
                            LAMBDA c : c.table = "sales_data" /\ c.op = "insert")

RECURSIVE SumOfSizes(_)
SumOfSizes(cs) == IF cs = <<>> THEN 0 ELSE Head(cs).n + SumOfSizes(Tail(cs))

\* Every canonical row of execution p has been handed to an insert: the bulk
\* insert of the fallback handler takes them all, the chunks add up to them
AllRowsAttempted(p) ==
    LET cs == InsertCalls(p)
        n  == Len(proc[p].transformedData)
    IN  IF proc[p].handler = "fallback"
        THEN cs # <<>> /\ Head(cs).n = n
        ELSE SumOfSizes(cs) = n

\* C16 as stated: in both handlers, an execution that started to insert its
\* n canonical rows has attempted an insert for every one of the n rows by
\* the time it answers, even when the insert of an earlier row or chunk
\* failed.
C16_EveryRowAttempted ==
    \A p \in Procs :
        Returned(p) /\ InsertCalls(p) # <<>> => AllRowsAttempted(p)

\* C16: in the per-row-fallback handler the bulk insert takes all n canonical
\* rows and, when it returns an error, the per-row loop attempts an insert
\* for every one of the n rows whatever the outcome of the earlier ones; in
\* the chunked handler a chunk whose insert fails is the last one attempted.
C16_FallbackAttemptsEveryRow ==
    \A p \in Procs :
        LET l  == proc[p]
            cs == InsertCalls(p)
            n  == Len(l.transformedData)
        IN  /\ l.handler = "fallback" /\ l.pc = "saveHistory" /\ n > 0 =>
                  /\ AllRowsAttempted(p)
                  /\ Head(cs).outcome = "error" =>
                        /\ Len(cs) = 1 + n
                        /\ \A j \in 2..Len(cs) : cs[j].n = 1
            /\ l.handler = "chunked" =>
                  \A j \in 1..Len(cs) : cs[j].outcome # "ok" => j = Len(cs)

\* The fallback handler went through the whole per-row loop of three rows
\* although the insert of the first row failed
C16_Witness ==
    \E p \in Procs :
        /\ proc[p].handler = "fallback"
        /\ proc[p].pc = "saveHistory"
        /\ Len(InsertCalls(p)) = 4
        /\ InsertCalls(p)[2].outcome # "ok"
        /\ InsertCalls(p)[4].outcome = "ok"

---------------------------------------------------------------------------
(* C19: the chunks of the chunked handler.                                 *)

Min(a, b) == IF a < b THEN a ELSE b

\* ceil(n / CHUNK_SIZE)
ChunksOf(n) == (n + CHUNK_SIZE - 1) \div CHUNK_SIZE

\* The chunk loop of execution p so far: the j-th insert call carries the
\* rows (j-1)*CHUNK_SIZE+1 .. j*CHUNK_SIZE of the n canonical rows (fewer
\* only at the end of the rows) and is issued after the calls before it
\* returned without error, the running count is the total size of the
\* chunks that succeeded, and the stored rows of the batch are the first
\* totalInserted canonical rows; when the loop ends with every insert
\* succeeded, ceil(n / CHUNK_SIZE) calls were made and all n rows are stored.
ChunkLoopShape(p) ==
    LET l  == proc[p]
        cs == InsertCalls(p)
        n  == Len(l.transformedData)
        ok == SelectSeq(cs, LAMBDA c : c.outcome = "ok")
    IN  /\ \A j \in 1..Len(cs) : cs[j].n = Min(CHUNK_SIZE, n - (j - 1) * CHUNK_SIZE)
        /\ Len(cs) <= ChunksOf(n)
        /\ \A j \in 1..Len(cs) - 1 : cs[j].outcome = "ok"
        /\ l.totalInserted = SumOfSizes(ok)
        /\ l.batchId # NoBatch =>
              RowsOf(l.batchId) = {l.transformedData[k] : k \in 1..l.totalInserted}
        /\ l.pc = "complete" =>
              /\ Len(cs) = ChunksOf(n)
              /\ Len(ok) = Len(cs)
              /\ l.totalInserted = n

\* C19: with chunk size C (500 in the source, CHUNK_SIZE here), the chunked
\* handler inserts n canonical rows in chunks that are contiguous, disjoint,
\* in row order and of exactly C rows except the last; when every insert
\* succeeds exactly ceil(n / C) calls are made and cover all rows; the
\* running inserted count equals the total size of the chunks that succeeded
\* so far and never decreases.
C19_ChunksCoverInOrder ==
    /\ [](\A p \in Procs : proc[p].handler = "chunked" => ChunkLoopShape(p))
    /\ [][\A p \in Procs : proc'[p].totalInserted >= proc[p].totalInserted]_vars

\* Three rows went in as a chunk of two and a chunk of one, both succeeded
C19_Witness ==
    \E p \in Procs :
        /\ proc[p].handler = "chunked"
        /\ proc[p].pc = "complete"
        /\ Len(InsertCalls(p)) = 2
        /\ InsertCalls(p)[1].n = CHUNK_SIZE
        /\ InsertCalls(p)[2].n < CHUNK_SIZE
        /\ proc[p].totalInserted = Len(proc[p].transformedData)

---------------------------------------------------------------------------
(* C13: two ingestions at the same time (specification SpecConc).          *)

\* The step is taken by execution p
StepOf(p) == \A q \in Procs \ {p} : proc'[q] = proc[q]

\* The two executions hold different batch ids, and every stored row carries
\* the batch id and the entity of the execution it is a canonical row of
RowsBelongToTheirIngestion ==
    /\ \A p, q \in Procs :
          p # q /\ proc[p].batchId # NoBatch => proc[p].batchId # proc[q].batchId
    /\ \A r \in sales_data \ PriorSales :
          \E p \in Procs :
              /\ r \in Range(proc[p].transformedData)
              /\ r.upload_batch_id = proc[p].batchId
              /\ r.entity = proc[p].entity

\* A step of execution p leaves every upload_history record of another
\* batch id as it was
UpdatesOwnRecordOnly ==
    \A p \in Procs :
        StepOf(p) =>
            \A k \in 1..Len(upload_history) :
                upload_history[k].batch_id # proc[p].batchId =>
                    upload_history'[k] = upload_history[k]

\* C13: for every interleaving of the persistence calls of two concurrent
\* ingestions, the two hold different batch ids, every sales_data row carries
\* the batch id and entity of the ingestion that produced it, and an
\* ingestion's upload_history updates change its own record only.
C13_ConcurrentIngestionsIsolated ==
    /\ []RowsBelongToTheirIngestion
    /\ [][UpdatesOwnRecordOnly]_vars

\* Both executions have stored rows and one has completed its record while
\* the record of the other is still in 'processing'
C13_Witness ==
    /\ \A p \in Procs : RowsOf(proc[p].batchId) # {}
    /\ \E p, q \in Procs :
          /\ \E k \in RecordsOf(proc[p].batchId) : upload_history[k].status = "completed"
          /\ \E k \in RecordsOf(proc[q].batchId) : upload_history[k].status = "processing"
          /\ proc[q].pc = "insertChunk"
          /\ proc[q].totalInserted > 0

---------------------------------------------------------------------------
(* C20: upload_history as an append-only trail (specification SpecConc).   *)

\* No step removes a record or changes which batch, entity and file a
\* record is about
NoRecordDeleted ==
    /\ Len(upload_history') >= Len(upload_history)
    /\ \A k \in 1..Len(upload_history) :
          /\ upload_history'[k].batch_id = upload_history[k].batch_id
          /\ upload_history'[k].entity = upload_history[k].entity
          /\ upload_history'[k].file_name = upload_history[k].file_name

OneRecordPerBatch ==
    \A j, k \in 1..Len(upload_history) :
        upload_history[j].batch_id = upload_history[k].batch_id => j = k

\* The batch id an execution allocated marks its own record and rows only
BatchIdNotShared ==
    \A p \in Procs :
        proc[p].batchId # NoBatch =>
            /\ \A q \in Procs \ {p} : proc[q].batchId # proc[p].batchId
            /\ \A k \in RecordsOf(proc[p].batchId) :
                  /\ upload_history[k].entity = proc[p].entity
                  /\ upload_history[k].file_name = proc[p].file.name
            /\ RowsOf(proc[p].batchId) \subseteq Range(proc[p].transformedData)

\* C20: upload_history is append-only: no handler step deletes a record, at
\* most one record is inserted per batch id, and a batch id allocated by one
\* execution is never used for the record or the rows of another execution.
C20_AppendOnlyTrail ==
    /\ [][NoRecordDeleted]_vars
    /\ [](OneRecordPerBatch /\ BatchIdNotShared)

\* Both executions have written their record, next to the one the store
\* held before
C20_Witness ==
    /\ Len(upload_history) = 3
    /\ \A p \in Procs : RecordsOf(proc[p].batchId) # {}

---------------------------------------------------------------------------
(* C15, C17, C18: the coercions (specification SpecCoerce).                *)

\* A coercion of the kind fn has been applied
Coerced(fn) == coercion.fn = fn /\ coercion.handler # "none"

\* The cell holds no date: it is absent, null, an empty or unparseable text,
\* an Invalid Date, a number beyond the range of dates, or of another type
HoldsNoDate(cell) ==
    \/ cell.t \in {"undefined", "null", "boolean"}
    \/ cell.t = "string" /\ cell.form \in {"empty", "garbage"}
    \/ cell.t = "date" /\ cell.form = "invalid"
    \/ cell.t = "number" /\ (cell.n > 100000000 \/ cell.n < -100000000)

\* The cell year and quarter are derived from: 'Invoice date', or 'Date' in
\* the fallback handler when 'Invoice date' is absent, null or empty
SourceDateCell ==
    IF coercion.handler = "fallback"
          /\ (coercion.cell.t \in {"undefined", "null"}
                \/ (coercion.cell.t = "string" /\ coercion.cell.form = "empty"))
    THEN coercion.dateCell
    ELSE coercion.cell

\* C15: in both handlers every canonical row has year and quarter both null
\* or both non-null, and both are null whenever the invoice date cell is
\* absent, null or unparseable, whatever the type of the raw cell value
\* (number, text, date, other).
C15_YearQuarterTogether ==
    Coerced("date") /\ coercion.out.kept =>
        /\ (coercion.out.year = Null) <=> (coercion.out.quarter = Null)
        /\ HoldsNoDate(coercion.cell) /\ HoldsNoDate(SourceDateCell) =>
              coercion.out.year = Null /\ coercion.out.quarter = Null

\* The cell holds no number: it is absent, null, an empty text, or a text
\* that has no parseable number once every character outside [0-9.-] is
\* stripped
HoldsNoNumber(cell) ==
    \/ cell.t \in {"undefined", "null"}
    \/ cell.t = "string" /\ parseFloat(stripped(cell.s)).nan

\* C17: in both handlers the numeric coercion of a null, undefined or
\* empty-text cell, and of a text without a parseable number after
\* stripping, is null and never 0.
C17_NoNumberIsNull ==
    Coerced("number") /\ HoldsNoNumber(coercion.cell) => coercion.out = Null

\* C18: in both handlers, for every integer serial d of the range and every
\* server UTC offset, the calendar day persisted in invoice_date and
\* due_date for a numeric cell d is 1899-12-30 plus d days; serial 44927
\* gives 2023-01-01.
C18_SerialDayExact ==
    /\ CivilFromDays(44927) = <<2023, 1, 1>>
    /\ Coerced("date") /\ coercion.cell.t = "number" /\ coercion.cell.n \in Serials =>
          /\ coercion.out.kept
          /\ coercion.out.invoice_date = <<CivilFromDays(coercion.cell.n)>>
          /\ coercion.out.due_date = <<CivilFromDays(coercion.cell.n)>>

---------------------------------------------------------------------------
(* C21: the history endpoint (specification SpecHistory).                  *)

\* The records of history the request of entity e asks for, most recent
\* first; every record when e is ""
AskedFor(history, e) ==
    SelectSeq(Reverse(history), LAMBDA r : e = "" \/ r.entity = e)

\* C21: the history GET endpoint writes nothing to the store and returns at
\* most 20 (HISTORY_LIMIT) records, the most recent ones in descending
\* order of upload time; when the caller supplies an entity, only records
\* of that entity are returned.
C21_RecentRecordsOfEntity ==
    \A p \in Procs :
        proc[p].handler = "history" /\ Returned(p) =>
            /\ \A j \in 1..Len(proc[p].calls) : proc[p].calls[j].op = "select"
            /\ proc[p].response.status = 200 =>
                  /\ Len(proc[p].response.history) <= HISTORY_LIMIT
                  /\ proc[p].response.history =
                        Take(AskedFor(upload_history, proc[p].entity), HISTORY_LIMIT)

---------------------------------------------------------------------------
(* C22: a failed chunk insert in the chunked handler.                      *)

\* The chunk inserts of execution p that the store answered with an error
FailedChunks(p) ==
    {j \in CallsOf(p, "sales_data", "insert") : proc[p].calls[j].outcome = "error"}

\* Execution p stopped inserting at call j: no later sales_data insert,
\* of the failed chunk or of another one, and the response is 500
AbortedAt(p, j) ==
    /\ \A i \in CallsOf(p, "sales_data", "insert") : i <= j
    /\ proc[p].response.status = 500
    /\ proc[p].response.success = FALSE

\* The record of p's batch holds 'failed' and the store's message
MarkedFailed(p) ==
    \A k \in RecordsOf(proc[p].batchId) :
        /\ upload_history[k].status = "failed"
        /\ upload_history[k].error_message = <<Msg(0, "insertError.message")>>

---------------------------------------------------------------------------
(* C23: the status the per-row fallback finalizes.                         *)

\* Execution p went through the per-row loop: its bulk insert, the first
\* insert on sales_data, returned an error
WentRowByRow(p) ==
    /\ proc[p].handler = "fallback"
    /\ \E j \in CallsOf(p, "sales_data", "insert") :
          /\ \A i \in CallsOf(p, "sales_data", "insert") : j <= i
          /\ proc[p].calls[j].outcome = "error"

\* The row inserts of execution p (the inserts of one row after the bulk
\* insert) with an outcome in os
RowInserts(p, os) ==
    {j \in CallsOf(p, "sales_data", "insert") :
        /\ \E i \in CallsOf(p, "sales_data", "insert") : i < j
        /\ proc[p].calls[j].outcome \in os}

\* C23: in the fallback handler, after the bulk insert failed and the rows
\* were inserted one by one, the UploadBatch record is finalized 'failed'
\* when no row insert succeeded, 'partial' when at least one succeeded and
\* at least one failed, and 'success' only when no row insert failed.
C23_FallbackFinalStatus ==
    \A p \in Procs :
        (WentRowByRow(p) /\ Returned(p)) =>
            \A k \in RecordsOf(proc[p].batchId) :
                LET succeeded == RowInserts(p, {"ok"})
                    failed    == RowInserts(p, {"error", "throw"})
                IN  /\ succeeded = {} => upload_history[k].status = "failed"
                    /\ succeeded # {} /\ failed # {} => upload_history[k].status = "partial"
                    /\ upload_history[k].status = "success" => failed = {}

---------------------------------------------------------------------------
(* C24: the warning cap of the chunked transform loop.                     *)

\* Execution p of the chunked handler has run its transform loop
Transformed(p) ==
    /\ proc[p].handler = "chunked"
    /\ proc[p].transformedData # <<>> \/ proc[p].errors # <<>>

\* The records of the sheet whose mapping does not raise
Usable(p) == {k \in 1..Len(proc[p].rawData) : proc[p].rawData[k] = "ok"}

\* The records of the sheet that have a canonical row
Included(p) == {proc[p].transformedData[j].row : j \in 1..Len(proc[p].transformedData)}

---------------------------------------------------------------------------
(* C28, C29: what a success response stands for.                           *)

\* Execution p has answered with a success response
Succeeded(p) ==
    /\ proc[p].handler \in {"chunked", "fallback"}
    /\ Returned(p)
    /\ proc[p].response.success

\* C28: whenever either handler returns a success response carrying batchId
\* b, an UploadBatch record with batch_id b exists and its status is one of
\* the terminal success or partial statuses, neither 'processing' nor
\* absent, also when the history insert or the final status update
\* returned an error.
C28_SuccessHasTerminalRecord ==
    \A p \in Procs :
        Succeeded(p) =>
            /\ RecordsOf(proc[p].response.batchId) # {}
            /\ \A k \in RecordsOf(proc[p].response.batchId) :
                  upload_history[k].status \in {"completed", "success", "partial"}

---------------------------------------------------------------------------
(* C25: a cell that cannot be coerced (specification SpecCoerce).          *)

\* C25: in both handlers a field-level coercion failure (a date or number
\* cell that cannot be parsed, a cell of an unexpected type) never rejects
\* the row: the record yields its canonical row, with the failing date
\* fields null, so the canonical set has as many rows as the sheet has
\* records.
C25_CoercionFailureKeepsRow ==
    Coerced("date") =>
        /\ coercion.out.kept
        /\ HoldsNoDate(coercion.cell) =>
              coercion.out.invoice_date = Null /\ coercion.out.due_date = Null

---------------------------------------------------------------------------
(* C26: header lookup (specification SpecCoerce).                          *)

\* The cells of the record under a header that is the column's header up to
\* letter case
CaseVariants(row, columnName) ==
    {row[k][2] : k \in {j \in 1..Len(row) : /\ row[j][1] # columnName
                                             /\ toLowerCase(row[j][1]) =
                                                   toLowerCase(columnName)}}

\* C26: in both handlers the header lookup of a mapped column is
\* case-insensitive with the exact match tried first: the exact header's
\* cell when the record has it, else the cell of a case-variant header, and
\* null when the record has neither; a header no column is mapped from is
\* ignored.
C26_CaseInsensitiveExactFirst ==
    Coerced("lookup") =>
        LET exact    == Get(coercion.row, "Invoice")
            variants == CaseVariants(coercion.row, "Invoice")
        IN  /\ exact # <<>> => coercion.out = exact
            /\ exact = <<>> /\ variants # {} =>
                  coercion.out # Null /\ coercion.out[1] \in variants
            /\ exact = <<>> /\ variants = {} => coercion.out = Null

---------------------------------------------------------------------------
(* C27: quarter and year of a date (specification SpecCoerce).             *)

\* The day a number cell, a date text or a Date cell stands for
DayOfCell(cell) == IF cell.t = "date" THEN cell.n \div 24 ELSE cell.n

\* The cell holds the 15th of a month: the same calendar day at every offset
MidMonth(cell) ==
    /\ cell.t \in {"number", "string", "date"}
    /\ DayOfCell(cell) \in MidMonthSerials

\* The quarter of a one-based month
QuarterOfMonth(m) ==
    CASE m \in 1..3 -> 1 [] m \in 4..6 -> 2 [] m \in 7..9 -> 3 [] m \in 10..12 -> 4

---------------------------------------------------------------------------
(* C30: year and quarter against the persisted invoice_date                *)
(* (specification SpecCoerce).                                             *)

\* C30: in both handlers a canonical row's year and quarter are consistent
\* with its persisted invoice_date: they are non-null only if invoice_date
\* is non-null, and then year is the calendar year of invoice_date and
\* quarter the quarter of its month, for every header set ('Invoice date'
\* present, only 'Date' present) and every server UTC offset.
C30_YearQuarterMatchInvoiceDate ==
    Coerced("date") /\ coercion.out.kept =>
        /\ coercion.out.invoice_date = Null =>
              coercion.out.year = Null /\ coercion.out.quarter = Null
        /\ coercion.out.invoice_date # Null /\ coercion.out.year # Null =>
              /\ coercion.out.year = <<coercion.out.invoice_date[1][1]>>
              /\ coercion.out.quarter =
                    <<QuarterOfMonth(coercion.out.invoice_date[1][2])>>

---------------------------------------------------------------------------
(* C31: the two column mappings (specification SpecCoerce).                *)

\* C31: the two POST upload handlers implement the same column mapping:
\* from every spreadsheet header both fill the same canonical fields and
\* coerce them with the same value kind (date, number or text).
C31_SameColumnMapping ==
    (coercion.fn = "mapping" /\ coercion.chunked # Null /\ coercion.fallback # Null) =>
        coercion.chunked = coercion.fallback

---------------------------------------------------------------------------
(* C32: the icon of a status (specification SpecHistory).                  *)

\* The icons of a finished ingestion, by success or by failure
FinishedIcons == {"CheckCircle2", "XCircle"}

\* C32: every terminal status an upload handler can write to an UploadBatch
\* record (completed, success, partial, failed) is rendered by the upload
\* page's getStatusIcon with a success or failure icon; only a record still
\* in 'processing' is rendered with the pending clock icon.
C32_TerminalStatusRenderedFinished ==
    \A p \in Procs :
        proc[p].pc = "rendered" =>
            \A k \in 1..Len(proc[p].icons) :
                LET status == proc[p].response.history[k].status
                IN  /\ status \in Terminal => proc[p].icons[k] \in FinishedIcons
                    /\ proc[p].icons[k] = "Clock" => status = "processing"

---------------------------------------------------------------------------
(* C33: overlapping fetchAllData calls (specification SpecDash).           *)

\* The fetchAllData calls that have not finished
InFlight == {c \in 1..Len(dashboard.calls) : dashboard.calls[c].pc # "done"}

\* C33: on the dashboard page, for any sequence of filter changes that
\* start overlapping fetchAllData calls and any completion order of their
\* responses, once all calls have completed the displayed datasets are
\* those fetched for the latest filter selection (when that fetch
\* succeeded), and the loading flag is false only while no fetchAllData
\* call is in flight.
C33_LatestSelectionDisplayed ==
    /\ (/\ dashboard.calls # <<>>
        /\ InFlight = {}
        /\ dashboard.calls[Len(dashboard.calls)].ok) =>
            \A d \in 1..DATASETS : dashboard.displayed[d] = dashboard.selection
    /\ (dashboard.open /\ ~dashboard.loading) => InFlight = {}

=============================================================================
